---- MODULE Spec2Model ----
(***************************************************************************)
(* The polling and change-reconciliation engine of xbet_scraper.py.        *)
(*                                                                         *)
(* One XbetScraper object runs run_continuous_updates: an initial fetch,   *)
(* then one tick per update interval.  A tick is modelled as one atomic    *)
(* action (the poll worker is the only writer of the scraper's state).     *)
(* A match record is a function from field names to values, like the       *)
(* Python dict; a store (live_events, upcoming_events) is the Python list. *)
(* Time is counted in seconds.                                             *)
(***************************************************************************)
EXTENDS Integers, Sequences, FiniteSets, TLC

VARIABLES
    pc,                       \* "none" (no scraper yet), "start" (before the
                              \*   initial fetch), "loop", "done"
    running,                  \* self.running
    now,                      \* the wall clock, in seconds
    update_count,             \* update_count of run_continuous_updates
    consecutive_errors,       \* consecutive_errors of run_continuous_updates
    driver,                   \* TRUE iff self.driver holds a browser session
    driver_start_time,        \* self.driver_start_time
    last_successful_run,      \* self.last_successful_run (-1 is None)
    live_events,              \* self.live_events
    upcoming_events,          \* self.upcoming_events
    new_live_events,          \* the snapshots parsed in the current cycle
    new_upcoming_events,
    new_live_matches,         \* the records created in the current cycle
    new_upcoming_matches,
    changed_live_matches,     \* positions in the store of the entities flagged changed
    changed_upcoming_matches,
    unchanged_live,           \* ids merged in the current cycle without being flagged
    unchanged_upcoming,
    calls,                    \* the calls of update_match_odds made in the current cycle
    received_live,            \* per entity of the store: the latest value of every
    received_upcoming,        \*   field that a record for it has carried
    cycle,                    \* what the last cycle was given and what it did
    streak,                   \* failed cycles since the last successful one
    streak_resets,            \* failure-triggered driver resets in that streak
    files,                    \* the data directory: name -> [mtime, content]
    writes,                   \* the writes attempted in the current cycle
    trim,                     \* what cleanup_old_data found and left, if it ran
    main,                     \* __main__: "construct", "run" (inside scraper.run), "exit"
    retry_count,              \* retry_count of __main__
    final_saves,              \* how often the finally block has saved the final files
    running_at_fetch,         \* self.running as it was when the last fetch began
    reader,                   \* do_GET: "idle", "stamp", "live", "upcoming", "respond"
    report,                   \* the values do_GET has read for its page
    held,                     \* the values the scraper has held since do_GET began
    maintenance               \* the maintenance steps the last iteration ran

vars == << pc, running, now, update_count, consecutive_errors, driver,
           driver_start_time, last_successful_run, live_events, upcoming_events,
           new_live_events, new_upcoming_events, new_live_matches,
           new_upcoming_matches, changed_live_matches, changed_upcoming_matches,
           unchanged_live, unchanged_upcoming, calls, received_live,
           received_upcoming, cycle, streak, streak_resets, files, writes, trim, maintenance,
           main, retry_count, final_saves, running_at_fetch, reader, report,
           held >>

----------------------------------------------------------------------------
(* Bounds of the model *)

\* ticks of the main loop explored under Spec
MaxCycles == 7
\* ticks of the main loop explored under SpecReconcile
MaxReconcileCycles == 2
\* ticks explored under SpecRetention, the first being one that runs the cleanup
MaxRetentionTicks == 1
\* timestamped snapshots, and earlier runs' sets of final files, that the
\* data directory holds when SpecRetention starts
MaxSnapshots == 4
MaxRuns == 3
\* ticks of the main loop explored under SpecPersist
MaxPersistCycles == 2
\* ticks of the main loop explored under SpecMain
MaxMainCycles == 2
\* ticks explored under SpecRestart, the last being the first at whose start
\* a browser started with the scraper is older than the ceiling
MaxRestartTicks == 3
\* ticks of the main loop explored under SpecStatus
MaxStatusCycles == 2
\* ticks explored under SpecMaintenance before each tick whose count is the
\* period of a maintenance step, that tick included
MaxMaintenanceTicks == 2
\* ticks of the main loop explored under SpecReset
MaxResetTicks == 3
\* ticks of the main loop explored under SpecScenario
MaxScenarioCycles == 3

(* Program constants *)

update_interval == 120
max_consecutive_errors == 5
restart_hours == 4
retention_hours == 48
cleanup_every == 50
snapshot_every == 10
keep_files == 5
ping_every == 10
gc_every == 20
max_retries == 5
retry_delay == 60

----------------------------------------------------------------------------
(* Match records *)

Has(m, key) == key \in DOMAIN m

Put(m, key, value) ==
    [k \in DOMAIN m \cup {key} |-> IF k = key THEN value ELSE m[k]]

NoFields == [k \in {} |-> k]

\* key.startswith('odd_')
OddKeys == {"odd_w1"}
IsOddKey(key) == key \in OddKeys

\* the keys update_match_odds handles before its generic loop, or skips in it
HandledKeys == {"timestamp", "score", "scores", "status", "match_id"}

\* the comparison every branch of update_match_odds makes:
\* key not in existing_match or existing_match[key] != value
FieldDiffers(existing_match, new_match, key) ==
    ~Has(existing_match, key) \/ existing_match[key] # new_match[key]

\* which differences make update_match_odds return True
OddsChanged_oddsOnly(score_changed, status_changed, odd_changed) ==
    odd_changed

OddsChanged(score_changed, status_changed, odd_changed) ==
    score_changed \/ status_changed \/ odd_changed

\* update_match_odds replacing the stored entity by the incoming record
UpdateMatchOdds_replaces(existing_match, new_match) ==
    [match |-> new_match, odds_changed |-> existing_match # new_match]

\* update_match_odds: the merged entity and the returned flag
UpdateMatchOdds(existing_match, new_match) ==
    LET e1 == Put(existing_match, "timestamp", new_match["timestamp"])
        score_changed ==
            Has(new_match, "score") /\ FieldDiffers(e1, new_match, "score")
        e2 == IF score_changed THEN Put(e1, "score", new_match["score"]) ELSE e1
        scores_changed ==
            Has(new_match, "scores") /\ FieldDiffers(e2, new_match, "scores")
        e3 == IF scores_changed THEN Put(e2, "scores", new_match["scores"]) ELSE e2
        status_changed ==
            Has(new_match, "status") /\ FieldDiffers(e3, new_match, "status")
        e4 == IF status_changed THEN Put(e3, "status", new_match["status"]) ELSE e3
        rest == DOMAIN new_match \ HandledKeys
        e5 == [k \in DOMAIN e4 \cup rest |->
                 IF k \in rest /\ FieldDiffers(e4, new_match, k)
                 THEN new_match[k] ELSE e4[k]]
        odd_changed ==
            \E k \in rest : IsOddKey(k) /\ FieldDiffers(e4, new_match, k)
    IN  [match |-> e5,
         odds_changed |-> OddsChanged(score_changed, status_changed, odd_changed)]

----------------------------------------------------------------------------
(* Reconciliation: lines 894-928 of run_continuous_updates *)

\* live_map = {match['match_id']: match for match in self.live_events ...}:
\* a later entity with the same id replaces an earlier one in the dict
InMap(events, match_id) ==
    \E i \in 1..Len(events) :
        Has(events[i], "match_id") /\ events[i]["match_id"] = match_id

MapIndex(events, match_id) ==
    CHOOSE i \in 1..Len(events) :
        /\ Has(events[i], "match_id") /\ events[i]["match_id"] = match_id
        /\ \A j \in (i+1)..Len(events) :
              ~(Has(events[j], "match_id") /\ events[j]["match_id"] = match_id)

\* The map is built once, before the loop: `mapped` is the store as it was
\* then.  Beside the store and the three lists the loop builds, acc keeps
\* the record of what was done: unchanged (the ids merged without a flag),
\* calls (every call of update_match_odds, with its arguments and results)
\* and received (per entity, the fields of the records it was given, a later
\* record's value replacing an earlier one's).
RECURSIVE ReconcileFrom(_, _, _, _)
ReconcileFrom(acc, mapped, new_events, i) ==
    IF i > Len(new_events) THEN acc
    ELSE LET new_match == new_events[i] IN
         IF ~Has(new_match, "match_id")
         THEN ReconcileFrom(acc, mapped, new_events, i + 1)
         ELSE LET match_id == new_match["match_id"] IN
              IF InMap(mapped, match_id)
              THEN LET at == MapIndex(mapped, match_id)
                       u  == UpdateMatchOdds(acc.events[at], new_match)
                   IN  ReconcileFrom(
                         [acc EXCEPT
                            !.events[at] = u.match,
                            !.changed = IF u.odds_changed THEN Append(@, at) ELSE @,
                            !.unchanged = IF u.odds_changed THEN @ ELSE Append(@, match_id),
                            !.calls = Append(@, [at |-> at,
                                                 existing_match |-> acc.events[at],
                                                 new_match |-> new_match,
                                                 merged |-> u.match,
                                                 odds_changed |-> u.odds_changed]),
                            !.received[at] = new_match @@ @],
                         mapped, new_events, i + 1)
              ELSE ReconcileFrom(
                         [acc EXCEPT !.created = Append(@, new_match),
                                     !.events = Append(@, new_match),
                                     !.received = Append(@, new_match)],
                         mapped, new_events, i + 1)

\* a reconciliation that stamps every stored entity with the time of the
\* snapshot, whether the snapshot lists it or not
Reconcile_stampsAll(events, received, new_events) ==
    LET r == ReconcileFrom([events |-> events, created |-> <<>>, changed |-> <<>>,
                            unchanged |-> <<>>, calls |-> <<>>, received |-> received],
                           events, new_events, 1)
    IN  IF new_events = <<>> THEN r
        ELSE [r EXCEPT !.events =
                 [i \in 1..Len(r.events) |->
                     Put(r.events[i], "timestamp", new_events[1]["timestamp"])]]

\* a reconciliation that takes an empty snapshot for an empty collection
Reconcile_dropsAbsent(events, received, new_events) ==
    LET r == ReconcileFrom([events |-> events, created |-> <<>>, changed |-> <<>>,
                            unchanged |-> <<>>, calls |-> <<>>, received |-> received],
                           events, new_events, 1)
    IN  IF new_events = <<>> THEN [r EXCEPT !.events = <<>>, !.received = <<>>]
        ELSE r

Reconcile(events, received, new_events) ==
    ReconcileFrom([events |-> events, created |-> <<>>, changed |-> <<>>,
                   unchanged |-> <<>>, calls |-> <<>>, received |-> received],
                  events, new_events, 1)

----------------------------------------------------------------------------
(* Retention: cleanup_old_data, the in-memory part *)

\* 'timestamp' not in m or m['timestamp'] > cutoff_str, per position
Fresh(events, t) ==
    [i \in 1..Len(events) |->
        ~Has(events[i], "timestamp")
        \/ events[i]["timestamp"] > t - retention_hours * 3600]

RECURSIVE KeepFrom(_, _, _)
KeepFrom(seq, keep, i) ==
    IF i > Len(seq) THEN <<>>
    ELSE (IF keep[i] THEN <<seq[i]>> ELSE <<>>) \o KeepFrom(seq, keep, i + 1)

CleanupOldData(events, t) == KeepFrom(events, Fresh(events, t), 1)

----------------------------------------------------------------------------
(* The data directory: save_to_csv, save_to_json, the change log, and the    *)
(* file part of cleanup_old_data.  The leagues list and its two files are    *)
(* left out: no store or counter depends on them.                            *)

\* A file name.  stamp is the minute a timestamped or final name carries
\* (-1 when the name has none); final marks the names written at shutdown.
FileName(base, final, stamp, ext) ==
    [base |-> base, final |-> final, stamp |-> stamp, ext |-> ext]

LiveBase == "1xbet_live_events"
UpcomingBase == "1xbet_upcoming_events"

\* "1xbet_live_events.json", "1xbet_live_events.csv", "odds_changes_log.txt"
Canonical(base, ext) == FileName(base, FALSE, -1, ext)
ChangeLog == FileName("odds_changes_log", FALSE, -1, "txt")

\* datetime.now().strftime("%Y%m%d-%H%M")
MinuteStamp(t) == t \div 60

\* f"1xbet_live_events_{timestamp}.json"
Timestamped(base, t, ext) == FileName(base, FALSE, MinuteStamp(t), ext)
\* f"1xbet_live_events_final_{timestamp}.csv"
Final(base, t, ext) == FileName(base, TRUE, MinuteStamp(t), ext)

\* the patterns "*_events*.json" / "*_events*.csv", which the canonical
\* names match as well
Matching_all(fs, ext) ==
    {n \in DOMAIN fs : n.base \in {LiveBase, UpcomingBase} /\ n.ext = ext}

\* glob "*_events_*.json" / "*_events_*.csv": something has to follow
\* "_events_", so the canonical names and the change log do not match
Matching(fs, ext) ==
    {n \in DOMAIN fs :
        n.base \in {LiveBase, UpcomingBase} /\ n.stamp # -1 /\ n.ext = ext}

NoFiles == [n \in {} |-> n]

\* open(filepath, 'w') ... : the file holds what was written
WriteFile(fs, name, content, t) ==
    (name :> [mtime |-> t, content |-> content]) @@ fs

\* open(filepath, 'a') ... : what was written follows what the file held
AppendFile(fs, name, content, t) ==
    IF name \in DOMAIN fs
    THEN (name :> [mtime |-> t, content |-> fs[name].content \o content]) @@ fs
    ELSE WriteFile(fs, name, content, t)

\* The kinds of output whose writing the environment can make fail in a
\* cycle ("json": a full-state document, "snapshot": a timestamped one,
\* "csv": an append log, "log": the change log, "remove": os.remove).
\* A failed write is taken to fail on opening: the file stays as it was.
FaultKinds == {"json", "snapshot", "csv", "log", "remove"}

\* d is the directory and the list of the writes attempted in the cycle
Attempt(d, name, mode, data, t, fails) ==
    [files |-> IF fails THEN d.files
               ELSE IF mode = "a" THEN AppendFile(d.files, name, data, t)
               ELSE WriteFile(d.files, name, data, t),
     writes |-> Append(d.writes,
                       [name |-> name, mode |-> mode, data |-> data, ok |-> ~fails])]

\* save_to_json: nothing is written for empty data; an error is caught
SaveToJson(d, data, name, t, fails) ==
    IF data = <<>> THEN d ELSE Attempt(d, name, "w", data, t, fails)

\* save_to_csv(data, filename, append): mode 'a' if append else 'w'
SaveToCsv(d, data, name, append, t, fails) ==
    IF data = <<>> THEN d
    ELSE Attempt(d, name, IF append THEN "a" ELSE "w", data, t, fails)

\* lines 818-824: the files the initial fetch writes
SaveInitial(d, live, upcoming, t, io) ==
    LET d1 == SaveToCsv(d, live, Canonical(LiveBase, "csv"), FALSE, t, "csv" \in io)
        d2 == SaveToCsv(d1, upcoming, Canonical(UpcomingBase, "csv"), FALSE, t,
                        "csv" \in io)
        d3 == SaveToJson(d2, live, Canonical(LiveBase, "json"), t, "json" \in io)
    IN  SaveToJson(d3, upcoming, Canonical(UpcomingBase, "json"), t, "json" \in io)

\* the timestamped snapshot written in every cycle with the right count,
\* changes or not
SaveCollection_snapshotAlways(d, base, events, created, changed, count, t, io) ==
    LET d1 == IF changed = <<>> /\ created = <<>> THEN d
              ELSE SaveToJson(d, events, Canonical(base, "json"), t, "json" \in io)
        d2 == IF count % snapshot_every = 0
              THEN SaveToJson(d1, events, Timestamped(base, t, "json"), t,
                              "snapshot" \in io)
              ELSE d1
    IN  IF created # <<>>
        THEN SaveToCsv(d2, created, Canonical(base, "csv"), TRUE, t, "csv" \in io)
        ELSE d2

\* the full-state document saved in every cycle, changes or not
SaveCollection_savesAlways(d, base, events, created, changed, count, t, io) ==
    LET d1 == SaveToJson(d, events, Canonical(base, "json"), t, "json" \in io)
        d2 == IF count % snapshot_every = 0 /\ (changed # <<>> \/ created # <<>>)
              THEN SaveToJson(d1, events, Timestamped(base, t, "json"), t,
                              "snapshot" \in io)
              ELSE d1
    IN  IF created # <<>>
        THEN SaveToCsv(d2, created, Canonical(base, "csv"), TRUE, t, "csv" \in io)
        ELSE d2

\* lines 937-946 and 948-957: the files one collection gets in a cycle
SaveCollection(d, base, events, created, changed, count, t, io) ==
    IF changed = <<>> /\ created = <<>> THEN d
    ELSE LET d1 == SaveToJson(d, events, Canonical(base, "json"), t, "json" \in io)
             d2 == IF count % snapshot_every = 0
                   THEN SaveToJson(d1, events, Timestamped(base, t, "json"), t,
                                   "snapshot" \in io)
                   ELSE d1
         IN  IF created # <<>>
             THEN SaveToCsv(d2, created, Canonical(base, "csv"), TRUE, t, "csv" \in io)
             ELSE d2

\* a final save that leaves out the upcoming collection
SaveFinal_liveOnly(d, live, upcoming, t, io) ==
    LET d1 == SaveToCsv(d, live, Final(LiveBase, t, "csv"), FALSE, t, "csv" \in io)
    IN  SaveToJson(d1, live, Final(LiveBase, t, "json"), t, "json" \in io)

\* the finally block of run_continuous_updates, lines 1010-1019
SaveFinal(d, live, upcoming, t, io) ==
    LET d1 == SaveToCsv(d, live, Final(LiveBase, t, "csv"), FALSE, t, "csv" \in io)
        d2 == SaveToCsv(d1, upcoming, Final(UpcomingBase, t, "csv"), FALSE, t,
                        "csv" \in io)
        d3 == SaveToJson(d2, live, Final(LiveBase, t, "json"), t, "json" \in io)
    IN  SaveToJson(d3, upcoming, Final(UpcomingBase, t, "json"), t, "json" \in io)

\* lines 964-968: the lines the change log gets for the entities of one
\* collection that were flagged changed.  old_events is a copy of the list,
\* not of the entities in it: it holds the entities as they are now.
\* old_match is the first entity of old_events with the id (or {}).
OldMatch(old_events, match_id) ==
    IF InMap(old_events, match_id)
    THEN old_events[CHOOSE i \in 1..Len(old_events) :
                       /\ old_events[i]["match_id"] = match_id
                       /\ \A j \in 1..(i-1) : old_events[j]["match_id"] # match_id]
    ELSE NoFields

RECURSIVE ChangeLines(_, _, _, _, _)
ChangeLines(collection, events, old_events, changed, i) ==
    IF i > Len(changed) THEN <<>>
    ELSE LET match == events[changed[i]]
             old_match == OldMatch(old_events, match["match_id"])
             keys == {k \in DOMAIN match :
                         IsOddKey(k) /\ Has(old_match, k) /\ old_match[k] # match[k]}
         IN  (IF keys = {} THEN <<>>
              ELSE << [collection |-> collection, match_id |-> match["match_id"],
                       changes |-> [k \in keys |-> <<old_match[k], match[k]>>]] >>)
             \o ChangeLines(collection, events, old_events, changed, i + 1)

\* files.sort(key=os.path.getmtime): glob gives the names in no particular
\* order, so files of equal age may come out in either order
RECURSIVE SortedByMtime(_, _)
SortedByMtime(fs, names) ==
    IF names = {} THEN { <<>> }
    ELSE UNION { { <<n>> \o rest : rest \in SortedByMtime(fs, names \ {n}) } :
                   n \in {m \in names : \A o \in names : fs[m].mtime <= fs[o].mtime} }

\* files[:-5], the slice kept being the last keep entries
OldFiles_keepsOldest(sorted) ==
    IF Len(sorted) > keep_files
    THEN {sorted[i] : i \in (keep_files + 1)..Len(sorted)}
    ELSE {}

OldFiles(sorted) ==
    IF Len(sorted) > keep_files
    THEN {sorted[i] : i \in 1..(Len(sorted) - keep_files)}
    ELSE {}

Remove(fs, names) == [n \in DOMAIN fs \ names |-> fs[n]]

\* lines 779-795: the directories the file cleanup can leave behind
RotateFiles(fs, remove_fails) ==
    IF remove_fails THEN {fs}
    ELSE { Remove(fs, OldFiles(js) \cup OldFiles(cs)) :
             js \in SortedByMtime(fs, Matching(fs, "json")),
             cs \in SortedByMtime(fs, Matching(fs, "csv")) }

----------------------------------------------------------------------------
(* The Fetcher: initialize_driver, get_page_content, restart_driver_if_needed *)

NoPage == [live |-> [present |-> FALSE, malformed |-> FALSE, matches |-> <<>>],
           upcoming |-> [present |-> FALSE, malformed |-> FALSE, matches |-> <<>>]]

\* What one call of get_page_content is given by its environment:
\*   init_ok       webdriver.Chrome(...) succeeds when the driver has to be created
\*   load_raises   driver.get or a scroll script raises
\*   wait_timed_out  one of the two 20 s waits for the event elements times out
\*   page          the page source the browser then holds
\* `waits` is the set of outcomes of the wait that a specification explores.
FetchInputs(pages, waits) ==
      {[init_ok |-> FALSE, load_raises |-> FALSE, wait_timed_out |-> FALSE, page |-> NoPage]}
 \cup {[init_ok |-> TRUE, load_raises |-> TRUE, wait_timed_out |-> w, page |-> NoPage] :
          w \in waits}
 \cup {[init_ok |-> TRUE, load_raises |-> FALSE, wait_timed_out |-> w, page |-> p] :
          w \in waits, p \in pages}

\* get_page_content with the wait's timeout treated as a failed fetch
GetPageContent_timeoutFails(drv, start_time, last_run, t, inp) ==
    IF ~(drv \/ inp.init_ok)
    THEN [has_content |-> FALSE, page |-> NoPage, driver |-> FALSE,
          driver_start_time |-> start_time, last_successful_run |-> last_run]
    ELSE IF inp.load_raises \/ inp.wait_timed_out
    THEN [has_content |-> FALSE, page |-> NoPage, driver |-> FALSE,
          driver_start_time |-> IF drv THEN start_time ELSE t,
          last_successful_run |-> last_run]
    ELSE [has_content |-> TRUE, page |-> inp.page, driver |-> TRUE,
          driver_start_time |-> IF drv THEN start_time ELSE t,
          last_successful_run |-> t]

\* get_page_content that notes the run as soon as it has a driver
GetPageContent_stampsOnEntry(drv, start_time, last_run, t, inp) ==
    IF ~(drv \/ inp.init_ok)
    THEN [has_content |-> FALSE, page |-> NoPage, driver |-> FALSE,
          driver_start_time |-> start_time, last_successful_run |-> last_run]
    ELSE IF inp.load_raises
    THEN [has_content |-> FALSE, page |-> NoPage, driver |-> FALSE,
          driver_start_time |-> IF drv THEN start_time ELSE t,
          last_successful_run |-> t]
    ELSE [has_content |-> TRUE, page |-> inp.page, driver |-> TRUE,
          driver_start_time |-> IF drv THEN start_time ELSE t,
          last_successful_run |-> t]

\* a fetch whose handler leaves the browser it failed with in place
GetPageContent_keepsDriver(drv, start_time, last_run, t, inp) ==
    IF ~(drv \/ inp.init_ok)
    THEN [has_content |-> FALSE, page |-> NoPage, driver |-> FALSE,
          driver_start_time |-> start_time, last_successful_run |-> last_run]
    ELSE IF inp.load_raises
    THEN [has_content |-> FALSE, page |-> NoPage, driver |-> TRUE,
          driver_start_time |-> IF drv THEN start_time ELSE t,
          last_successful_run |-> last_run]
    ELSE [has_content |-> TRUE, page |-> inp.page, driver |-> TRUE,
          driver_start_time |-> IF drv THEN start_time ELSE t,
          last_successful_run |-> t]

\* get_page_content at time t: the driver is created when absent
\* (initialize_driver, which restarts driver_start_time); an error while
\* loading quits the driver and returns None; a timed-out wait is logged and
\* the fetch goes on ("Will try to continue anyway").
GetPageContent(drv, start_time, last_run, t, inp) ==
    IF ~(drv \/ inp.init_ok)
    THEN [has_content |-> FALSE, page |-> NoPage, driver |-> FALSE,
          driver_start_time |-> start_time, last_successful_run |-> last_run]
    ELSE IF inp.load_raises
    THEN [has_content |-> FALSE, page |-> NoPage, driver |-> FALSE,
          driver_start_time |-> IF drv THEN start_time ELSE t,
          last_successful_run |-> last_run]
    ELSE [has_content |-> TRUE, page |-> inp.page, driver |-> TRUE,
          driver_start_time |-> IF drv THEN start_time ELSE t,
          last_successful_run |-> t]

\* a check that takes the seconds of the age for its minutes
RestartDriverIfNeeded_minutes(drv, start_time, t) ==
    IF t - start_time > restart_hours * 3600 * 60
    THEN [driver |-> FALSE, driver_start_time |-> t]
    ELSE [driver |-> drv, driver_start_time |-> start_time]

\* a check that restarts the age clock of a driver it leaves running
RestartDriverIfNeeded_keepsDriver(drv, start_time, t) ==
    IF t - start_time > restart_hours * 3600
    THEN [driver |-> drv, driver_start_time |-> t]
    ELSE [driver |-> drv, driver_start_time |-> start_time]

\* restart_driver_if_needed at time t
RestartDriverIfNeeded(drv, start_time, t) ==
    IF t - start_time > restart_hours * 3600
    THEN [driver |-> FALSE, driver_start_time |-> t]
    ELSE [driver |-> drv, driver_start_time |-> start_time]

----------------------------------------------------------------------------
(* The Source: parse_live_events, parse_upcoming_events *)

\* every parsed record carries 'timestamp': datetime.now()
Stamp(raw, t) == Put(raw, "timestamp", t)

\* a missing container counted as a parse error
ParseEvents_missingRaises(section, t) ==
    [raised |-> ~section.present \/ section.malformed,
     events |-> IF section.present /\ ~section.malformed
                THEN [i \in 1..Len(section.matches) |-> Stamp(section.matches[i], t)]
                ELSE <<>>]

\* without its container a collection parses to the empty list (a warning is
\* logged); markup the selectors do not expect raises inside the section loop
ParseEvents(section, t) ==
    [raised |-> section.present /\ section.malformed,
     events |-> IF section.present /\ ~section.malformed
                THEN [i \in 1..Len(section.matches) |-> Stamp(section.matches[i], t)]
                ELSE <<>>]

----------------------------------------------------------------------------
(* The failure counter of the main loop *)

ThresholdReached_offByOne(errors) == errors >= max_consecutive_errors - 1

\* consecutive_errors >= max_consecutive_errors
ThresholdReached(errors) == errors >= max_consecutive_errors

\* lines 872-885: no page content
OnFetchFailed(errors) ==
    [errors |-> errors + 1, reset |-> ThresholdReached(errors + 1)]

\* lines 986-1003: an exception inside the cycle
OnCycleError(errors) ==
    [errors |-> IF ThresholdReached(errors + 1) THEN 0 ELSE errors + 1,
     reset |-> ThresholdReached(errors + 1)]

----------------------------------------------------------------------------
(* The pages the environment can serve *)

\* a record as the parser builds it, before it is stamped: the id, the
\* identity field country, and the fields the markup happened to carry
Raw(match_id, country, fields) ==
    ("match_id" :> match_id) @@ ("country" :> country) @@ fields

\* in the live section a score comes as the cell list and its joined text
Scores == { NoFields,
            ("scores" :> <<"0", "0">>) @@ ("score" :> "0 - 0"),
            ("scores" :> <<"1", "0">>) @@ ("score" :> "1 - 0") }
Statuses == { NoFields, "status" :> "1 Half", "status" :> "2 Half" }
Odds == { NoFields, "odd_w1" :> "1.85", "odd_w1" :> "1.86" }
StartTimes == { NoFields, "start_time" :> "18:00", "start_time" :> "19:00" }

SeqsUpTo(S, n) == UNION { [1..k -> S] : k \in 0..n }

Missing == [present |-> FALSE, malformed |-> FALSE, matches |-> <<>>]
Malformed == [present |-> TRUE, malformed |-> TRUE, matches |-> <<>>]
Listing(s) == [present |-> TRUE, malformed |-> FALSE, matches |-> s]

\* the sections whose list holds at most one of `records`, or one of `pairs`
Listings(records, pairs) ==
    {Listing(s) : s \in SeqsUpTo(records, 1) \cup pairs}

\* Spec: long runs of the loop over a few pages: a container missing, a
\* section the parser raises on, one record in either collection
SmallPages ==
    { [live |-> Missing, upcoming |-> Missing],
      [live |-> Listing(<<Raw("A", "in", "score" :> "0 - 0")>>), upcoming |-> Missing],
      [live |-> Missing, upcoming |-> Listing(<<Raw("C", "in", "odd_w1" :> "1.85")>>)],
      [live |-> Malformed, upcoming |-> Missing],
      [live |-> Listing(<<>>), upcoming |-> Malformed] }

\* SpecReconcile: one collection at a time, with every combination of its
\* fields present, absent and differing, and pairs of records sharing an id
\* (the sections a parser raises on are explored under Spec).
\* start_time stands for the fields that only the generic loop of
\* update_match_odds touches (match_url, has_video, league_url, ...).
RichLive ==
    { Raw("A", "in", sc @@ st) : sc \in Scores, st \in Statuses }
    \cup { Raw("A", "uk", NoFields), Raw("B", "in", NoFields) }
RichUpcoming ==
    { Raw("C", "in", od @@ tm) : od \in Odds, tm \in StartTimes }
    \cup { Raw("C", "uk", NoFields), Raw("D", "in", NoFields) }

PairsLive ==
    [1..2 -> { Raw("A", "in", ("scores" :> <<"0", "0">>) @@ ("score" :> "0 - 0")),
               Raw("A", "in", ("scores" :> <<"1", "0">>) @@ ("score" :> "1 - 0")) }]
PairsUpcoming ==
    [1..2 -> { Raw("C", "in", "odd_w1" :> "1.85") }]

RichPages ==
    {[live |-> Missing, upcoming |-> Missing]}
    \cup {[live |-> l, upcoming |-> Missing] : l \in Listings(RichLive, PairsLive)}
    \cup {[live |-> Missing, upcoming |-> u] :
             u \in Listings(RichUpcoming, PairsUpcoming)}

----------------------------------------------------------------------------
(* The state after XbetScraper() *)

\* the shape of a section of the page, as the parser meets it
Shape(section) ==
    IF ~section.present THEN "missing"
    ELSE IF section.malformed THEN "malformed" ELSE "listing"

\* `cycle` records what the environment gave the last cycle (whether the
\* driver could be had, whether loading raised, whether the wait timed out,
\* the shape of both sections) and what the loop did with it: kind is
\* "fetch_failed" (no content), "raised" (an exception after the fetch) or
\* "ok"; peak is the value the counter was raised to, reset whether the loop
\* tore the driver down for reaching the threshold.
CycleRecord(kind, inp, had_driver, peak, reset) ==
    [kind |-> kind,
     driver_ok |-> had_driver \/ inp.init_ok,
     load_raises |-> inp.load_raises,
     wait_timed_out |-> inp.wait_timed_out,
     live |-> Shape(inp.page.live),
     upcoming |-> Shape(inp.page.upcoming),
     errors_before |-> consecutive_errors,
     streak_before |-> streak,
     peak |-> peak,
     reset |-> reset]

NoCycle == [kind |-> "none", driver_ok |-> TRUE, load_raises |-> FALSE,
            wait_timed_out |-> FALSE, live |-> "missing", upcoming |-> "missing",
            errors_before |-> 0, streak_before |-> 0, peak |-> 0, reset |-> FALSE]

NoTrim == [ran |-> FALSE, cutoff |-> 0, remove_fails |-> FALSE,
           live |-> <<>>, live_after |-> <<>>,
           upcoming |-> <<>>, upcoming_after |-> <<>>,
           files |-> NoFiles, files_after |-> NoFiles]

\* do_GET, lines 52-54: what the page shows when nothing has been read
NoReport == [last_update |-> -1, live_count |-> 0, upcoming_count |-> 0]

NoneHeld == [last_update |-> {}, live_count |-> {}, upcoming_count |-> {}]

\* what the scraper holds at one instant, as the page would show it
Holding(last, live, upcoming) ==
    [last_update |-> {last}, live_count |-> {Len(live)},
     upcoming_count |-> {Len(upcoming)}]

\* the values held while a request is being served are remembered
Hold(h, rdr, last, live, upcoming) ==
    IF rdr = "idle" THEN h
    ELSE [k \in DOMAIN h |-> h[k] \cup Holding(last, live, upcoming)[k]]

\* the fields of a scraper as __init__ sets them, and the locals of
\* run_continuous_updates as they are before its first statement
Unstarted ==
    /\ running = TRUE
    /\ now = 0
    /\ update_count = 0
    /\ consecutive_errors = 0
    /\ driver_start_time = 0
    /\ last_successful_run = -1
    /\ live_events = <<>>
    /\ upcoming_events = <<>>
    /\ new_live_events = <<>>
    /\ new_upcoming_events = <<>>
    /\ new_live_matches = <<>>
    /\ new_upcoming_matches = <<>>
    /\ changed_live_matches = <<>>
    /\ changed_upcoming_matches = <<>>
    /\ unchanged_live = <<>>
    /\ unchanged_upcoming = <<>>
    /\ calls = <<>>
    /\ received_live = <<>>
    /\ received_upcoming = <<>>
    /\ cycle = NoCycle
    /\ streak = 0
    /\ streak_resets = 0
    /\ writes = <<>>
    /\ trim = NoTrim
    /\ maintenance = {}
    /\ retry_count = 0
    /\ final_saves = 0
    /\ running_at_fetch = TRUE
    /\ reader = "idle"
    /\ report = NoReport
    /\ held = NoneHeld

\* the first XbetScraper() of __main__ has returned and run() is entered;
\* both attempts to start the browser may fail in __init__: driver is then None
Constructed ==
    /\ Unstarted
    /\ pc = "start"
    /\ main = "run"
    /\ driver \in BOOLEAN

\* a first run: os.makedirs has just created the data directory
Init == Constructed /\ files = NoFiles

NoChangeSet ==
    /\ new_live_matches' = <<>>
    /\ new_upcoming_matches' = <<>>
    /\ changed_live_matches' = <<>>
    /\ changed_upcoming_matches' = <<>>
    /\ unchanged_live' = <<>>
    /\ unchanged_upcoming' = <<>>
    /\ calls' = <<>>

----------------------------------------------------------------------------
(* run_continuous_updates, lines 843-860: the maintenance steps that the
   iteration with this count runs before it sleeps *)

\* maintenance with the ping sent when the memory is reclaimed
Maintenance_pingWithGc(count) ==
    {"restart_check"}
      \cup (IF count % gc_every = 0 THEN {"ping", "gc"} ELSE {})
      \cup (IF count % cleanup_every = 0 THEN {"cleanup"} ELSE {})

Maintenance(count) ==
    {"restart_check"}
      \cup (IF count % ping_every = 0 THEN {"ping"} ELSE {})
      \cup (IF count % cleanup_every = 0 THEN {"cleanup"} ELSE {})
      \cup (IF count % gc_every = 0 THEN {"gc"} ELSE {})

----------------------------------------------------------------------------
(* run_continuous_updates, lines 808-835: the initial fetch *)

\* `faults` is the set of sets of output kinds whose writes fail that a
\* specification explores
InitialFetch(pages, waits, faults) ==
    /\ pc = "start"
    /\ \E inp \in FetchInputs(pages, waits), io \in faults :
         LET f  == GetPageContent(driver, driver_start_time, last_successful_run,
                                  now, inp)
             pl == ParseEvents(f.page.live, now)
             pu == ParseEvents(f.page.upcoming, now)
             parse_raised == f.has_content /\ (pl.raised \/ pu.raised)
             live1 == IF f.has_content /\ ~pl.raised THEN pl.events ELSE live_events
             upcoming1 == IF f.has_content /\ ~parse_raised THEN pu.events
                          ELSE upcoming_events
             d0 == [files |-> files, writes |-> <<>>]
             saved == IF f.has_content /\ ~parse_raised
                      THEN SaveInitial(d0, live1, upcoming1, now, io) ELSE d0
             \* lines 827-829: the change log is created outside any handler
             log_raised == f.has_content /\ ~parse_raised /\ "log" \in io
             logged == IF f.has_content /\ ~parse_raised
                       THEN Attempt(saved, ChangeLog, "w", <<[started_at |-> now]>>,
                                    now, "log" \in io)
                       ELSE saved
             raised == parse_raised \/ log_raised
             \* an exception here is not inside the loop's try: it ends the run,
             \* and the finally block saves the final files
             d == IF raised THEN SaveFinal(logged, live1, upcoming1, now, io)
                  ELSE logged
         IN  /\ driver' = f.driver
             /\ driver_start_time' = f.driver_start_time
             /\ last_successful_run' = f.last_successful_run
             /\ pc' = IF raised THEN "done" ELSE "loop"
             /\ live_events' = live1
             /\ upcoming_events' = upcoming1
             /\ received_live' = live_events'
             /\ received_upcoming' = upcoming_events'
             /\ new_live_events' = <<>>
             /\ new_upcoming_events' = <<>>
             /\ consecutive_errors' =
                   IF f.has_content THEN (IF raised THEN consecutive_errors ELSE 0)
                   ELSE consecutive_errors + 1
             /\ streak' = IF f.has_content /\ ~raised THEN 0 ELSE streak + 1
             /\ streak_resets' = 0
             /\ cycle' = CycleRecord(IF ~f.has_content THEN "fetch_failed"
                                      ELSE IF raised THEN "raised" ELSE "ok",
                                      inp, driver,
                                      IF f.has_content THEN 0 ELSE consecutive_errors + 1,
                                      FALSE)
             /\ files' = d.files
             /\ writes' = d.writes
             /\ final_saves' = final_saves + (IF raised THEN 1 ELSE 0)
             /\ held' = Hold(held, reader, f.last_successful_run, live1, upcoming1)
    /\ running_at_fetch' = running
    /\ NoChangeSet
    /\ UNCHANGED << running, now, update_count, trim, maintenance, main, retry_count, reader,
                    report >>

----------------------------------------------------------------------------
(* run_continuous_updates, lines 838-1003: one iteration of the main loop *)

\* `signals` tells whether a termination signal may be delivered while the
\* iteration sleeps at line 863: the handler clears self.running, and the
\* iteration does not read the flag again before the next test of the while
Tick(pages, waits, faults, signals, max_cycles) ==
    /\ pc = "loop"
    /\ running
    /\ \E sig \in signals : running' = ~sig /\ running_at_fetch' = ~sig
    /\ maintenance' = Maintenance(update_count + 1)
    /\ update_count < max_cycles
    /\ update_count' = update_count + 1
    /\ now' = now + update_interval                       \* time.sleep
    /\ \E inp \in FetchInputs(pages, waits), io \in faults :
       \E files0 \in (IF "cleanup" \in Maintenance(update_count + 1)
                      THEN RotateFiles(files, "remove" \in io) ELSE {files}) :
         LET r  == RestartDriverIfNeeded(driver, driver_start_time, now)
             trimming == "cleanup" \in Maintenance(update_count + 1)
             live0 == IF trimming THEN CleanupOldData(live_events, now) ELSE live_events
             upcoming0 == IF trimming THEN CleanupOldData(upcoming_events, now)
                          ELSE upcoming_events
             f  == GetPageContent(r.driver, r.driver_start_time, last_successful_run,
                                  now', inp)
             failed == OnFetchFailed(consecutive_errors)
             pl == ParseEvents(f.page.live, now')
             pu == ParseEvents(f.page.upcoming, now')
             parse_raised == pl.raised \/ pu.raised
             \* line 888 has already set the counter to 0 when the parsers run
             error == OnCycleError(0)
             received_live0 ==
                 IF trimming THEN KeepFrom(received_live, Fresh(live_events, now), 1)
                 ELSE received_live
             received_upcoming0 ==
                 IF trimming
                 THEN KeepFrom(received_upcoming, Fresh(upcoming_events, now), 1)
                 ELSE received_upcoming
         IN
         \* the reconciliation of both collections, each worked out once
         \E rl \in {Reconcile(live0, received_live0, pl.events)},
            ru \in {Reconcile(upcoming0, received_upcoming0, pu.events)} :
         LET d0 == [files |-> files0, writes |-> <<>>]
             dl == SaveCollection(d0, LiveBase, rl.events, rl.created, rl.changed,
                                  update_count + 1, now', io)
             du == SaveCollection(dl, UpcomingBase, ru.events, ru.created, ru.changed,
                                  update_count + 1, now', io)
             \* lines 960-974: open(..., "a") is not inside a handler of its own
             log_due == rl.changed # <<>> \/ ru.changed # <<>>
             lines == << [update_at |-> now'] >>
                      \o ChangeLines("LIVE", rl.events,
                                     SubSeq(rl.events, 1, Len(live0)), rl.changed, 1)
                      \o ChangeLines("UPCOMING", ru.events,
                                     SubSeq(ru.events, 1, Len(upcoming0)), ru.changed, 1)
             log_raised == log_due /\ "log" \in io
         IN
         \E d \in {IF log_due
                    THEN Attempt(du, ChangeLog, "a", lines, now', "log" \in io)
                    ELSE du} :
             /\ driver_start_time' = f.driver_start_time
             /\ last_successful_run' = f.last_successful_run
             /\ trim' = IF trimming
                        THEN [ran |-> TRUE,
                              cutoff |-> now - retention_hours * 3600,
                              remove_fails |-> "remove" \in io,
                              live |-> live_events, live_after |-> live0,
                              upcoming |-> upcoming_events, upcoming_after |-> upcoming0,
                              files |-> files, files_after |-> files0]
                        ELSE NoTrim
             /\ IF ~f.has_content
                THEN /\ consecutive_errors' = failed.errors
                     /\ driver' = IF failed.reset THEN FALSE ELSE f.driver
                     /\ live_events' = live0
                     /\ upcoming_events' = upcoming0
                     /\ received_live' = received_live0
                     /\ received_upcoming' = received_upcoming0
                     /\ new_live_events' = <<>>
                     /\ new_upcoming_events' = <<>>
                     /\ NoChangeSet
                     /\ streak' = streak + 1
                     /\ streak_resets' = streak_resets + (IF failed.reset THEN 1 ELSE 0)
                     /\ cycle' = CycleRecord("fetch_failed", inp, r.driver,
                                              consecutive_errors + 1, failed.reset)
                     /\ files' = files0
                     /\ writes' = <<>>
                ELSE IF parse_raised
                THEN /\ consecutive_errors' = error.errors
                     /\ driver' = IF error.reset THEN FALSE ELSE f.driver
                     /\ live_events' = live0
                     /\ upcoming_events' = upcoming0
                     /\ received_live' = received_live0
                     /\ received_upcoming' = received_upcoming0
                     /\ new_live_events' = IF pl.raised THEN <<>> ELSE pl.events
                     /\ new_upcoming_events' = <<>>
                     /\ NoChangeSet
                     /\ streak' = streak + 1
                     /\ streak_resets' = streak_resets + (IF error.reset THEN 1 ELSE 0)
                     /\ cycle' = CycleRecord("raised", inp, r.driver, 1, error.reset)
                     /\ files' = files0
                     /\ writes' = <<>>
                ELSE /\ live_events' = rl.events
                     /\ upcoming_events' = ru.events
                     /\ new_live_events' = pl.events
                     /\ new_upcoming_events' = pu.events
                     /\ new_live_matches' = rl.created
                     /\ new_upcoming_matches' = ru.created
                     /\ changed_live_matches' = rl.changed
                     /\ changed_upcoming_matches' = ru.changed
                     /\ unchanged_live' = rl.unchanged
                     /\ unchanged_upcoming' = ru.unchanged
                     /\ calls' = rl.calls \o ru.calls
                     /\ received_live' = rl.received
                     /\ received_upcoming' = ru.received
                     /\ files' = d.files
                     /\ writes' = d.writes
                     /\ IF log_raised
                        THEN /\ consecutive_errors' = error.errors
                             /\ driver' = IF error.reset THEN FALSE ELSE f.driver
                             /\ streak' = streak + 1
                             /\ streak_resets' =
                                   streak_resets + (IF error.reset THEN 1 ELSE 0)
                             /\ cycle' = CycleRecord("raised", inp, r.driver, 1,
                                                      error.reset)
                        ELSE /\ consecutive_errors' = 0
                             /\ driver' = f.driver
                             /\ streak' = 0
                             /\ streak_resets' = 0
                             /\ cycle' = CycleRecord("ok", inp, r.driver, 0, FALSE)
             /\ held' = Hold(held, reader, f.last_successful_run, live_events',
                             upcoming_events')
    /\ UNCHANGED << pc, main, retry_count, final_saves, reader, report >>

----------------------------------------------------------------------------
(* signal_handler, and the end of the loop *)

SignalHandler ==
    /\ pc \in {"start", "loop"}
    /\ running
    /\ running' = FALSE
    /\ UNCHANGED << pc, now, update_count, consecutive_errors, driver,
                    driver_start_time, last_successful_run, live_events,
                    upcoming_events, new_live_events, new_upcoming_events,
                    new_live_matches, new_upcoming_matches, changed_live_matches,
                    changed_upcoming_matches, unchanged_live, unchanged_upcoming,
                    calls, received_live, received_upcoming,
                    cycle, streak, streak_resets, files, writes, trim, maintenance,
                    main, retry_count, final_saves, running_at_fetch, reader,
                    report, held >>

\* while self.running is false: the loop is left and the final data saved
Shutdown(faults) ==
    /\ pc = "loop"
    /\ ~running
    /\ pc' = "done"
    /\ \E io \in faults :
         LET d == SaveFinal([files |-> files, writes |-> <<>>],
                            live_events, upcoming_events, now, io)
         IN  files' = d.files /\ writes' = d.writes
    /\ final_saves' = final_saves + 1
    /\ UNCHANGED << running, now, update_count, consecutive_errors, driver,
                    driver_start_time, last_successful_run, live_events,
                    upcoming_events, new_live_events, new_upcoming_events,
                    new_live_matches, new_upcoming_matches, changed_live_matches,
                    changed_upcoming_matches, unchanged_live, unchanged_upcoming,
                    calls, received_live, received_upcoming,
                    cycle, streak, streak_resets, trim, maintenance,
                    main, retry_count, running_at_fetch, reader, report, held >>

----------------------------------------------------------------------------
(* __main__, lines 1080-1103: the loop that constructs and runs the scraper *)

\* one pass through the body of the while loop up to scraper.run, or to the
\* end of the except clause if XbetScraper() raises (os.makedirs, the signal
\* handlers); `outcomes` tells whether the constructor may return, may raise
\* or both
Construct_sixAttempts(outcomes) ==
    /\ main = "construct"
    /\ retry_count <= max_retries
    /\ \E ok \in outcomes :
         IF ok
         THEN /\ main' = "run"
              /\ pc' = "start"
              /\ driver' \in BOOLEAN
              /\ driver_start_time' = now
              /\ UNCHANGED << retry_count, now >>
         ELSE /\ retry_count' = retry_count + 1
              /\ now' = now + retry_delay
              /\ main' = IF retry_count + 1 <= max_retries THEN "construct" ELSE "exit"
              /\ UNCHANGED << pc, driver, driver_start_time >>
    /\ UNCHANGED << running, update_count, consecutive_errors,
                    last_successful_run, live_events,
                    upcoming_events, new_live_events, new_upcoming_events,
                    new_live_matches, new_upcoming_matches, changed_live_matches,
                    changed_upcoming_matches, unchanged_live, unchanged_upcoming,
                    calls, received_live, received_upcoming,
                    cycle, streak, streak_resets, files, writes, trim, maintenance,
                    final_saves, running_at_fetch, reader, report, held >>

Construct(outcomes) ==
    /\ main = "construct"
    /\ retry_count < max_retries
    /\ \E ok \in outcomes :
         IF ok
         THEN /\ main' = "run"
              /\ pc' = "start"
              /\ driver' \in BOOLEAN
              /\ driver_start_time' = now
              /\ UNCHANGED << retry_count, now >>
         ELSE /\ retry_count' = retry_count + 1
              /\ now' = now + retry_delay
              /\ main' = IF retry_count + 1 < max_retries THEN "construct" ELSE "exit"
              /\ UNCHANGED << pc, driver, driver_start_time >>
    /\ UNCHANGED << running, update_count, consecutive_errors,
                    last_successful_run, live_events,
                    upcoming_events, new_live_events, new_upcoming_events,
                    new_live_matches, new_upcoming_matches, changed_live_matches,
                    changed_upcoming_matches, unchanged_live, unchanged_upcoming,
                    calls, received_live, received_upcoming,
                    cycle, streak, streak_resets, files, writes, trim, maintenance,
                    final_saves, running_at_fetch, reader, report, held >>

\* run_continuous_updates handles every Exception itself (lines 1005-1009),
\* so scraper.run returns normally however the loop ended, and line 1088
\* leaves the while loop
Return ==
    /\ main = "run"
    /\ pc = "done"
    /\ main' = "exit"
    /\ UNCHANGED << pc, running, now, update_count, consecutive_errors, driver,
                    driver_start_time, last_successful_run, live_events,
                    upcoming_events, new_live_events, new_upcoming_events,
                    new_live_matches, new_upcoming_matches, changed_live_matches,
                    changed_upcoming_matches, unchanged_live, unchanged_upcoming,
                    calls, received_live, received_upcoming,
                    cycle, streak, streak_resets, files, writes, trim, maintenance,
                    retry_count, final_saves, running_at_fetch, reader, report,
                    held >>

----------------------------------------------------------------------------
(* SimpleHandler.do_GET, lines 45-90: the status page, served by the thread
   of run_server.  Each read of an attribute of global_scraper is one step. *)

\* everything the main thread and the signal handler write
scraper_vars == << pc, running, now, update_count, consecutive_errors, driver,
                   driver_start_time, last_successful_run, live_events,
                   upcoming_events, new_live_events, new_upcoming_events,
                   new_live_matches, new_upcoming_matches, changed_live_matches,
                   changed_upcoming_matches, unchanged_live, unchanged_upcoming,
                   calls, received_live, received_upcoming, cycle, streak,
                   streak_resets, files, writes, trim, maintenance, main, retry_count,
                   final_saves, running_at_fetch >>

\* lines 52-56: the defaults, and the test of global_scraper and of its
\* last_successful_run
BeginGet ==
    /\ reader = "idle"
    /\ report' = NoReport
    /\ held' = Holding(last_successful_run, live_events, upcoming_events)
    /\ reader' = IF pc # "none" /\ last_successful_run # -1 THEN "stamp"
                 ELSE "respond"
    /\ UNCHANGED scraper_vars

\* line 57
ReadStamp ==
    /\ reader = "stamp"
    /\ report' = [report EXCEPT !.last_update = last_successful_run]
    /\ reader' = "live"
    /\ UNCHANGED << scraper_vars, held >>

\* a page whose live count is read from the other store
ReadLive_readsUpcoming ==
    /\ reader = "live"
    /\ report' = [report EXCEPT !.live_count = Len(upcoming_events)]
    /\ reader' = "upcoming"
    /\ UNCHANGED << scraper_vars, held >>

\* line 58
ReadLive ==
    /\ reader = "live"
    /\ report' = [report EXCEPT !.live_count = Len(live_events)]
    /\ reader' = "upcoming"
    /\ UNCHANGED << scraper_vars, held >>

\* line 59
ReadUpcoming ==
    /\ reader = "upcoming"
    /\ report' = [report EXCEPT !.upcoming_count = Len(upcoming_events)]
    /\ reader' = "respond"
    /\ UNCHANGED << scraper_vars, held >>

\* lines 60-90: the page is written with the values read
Respond ==
    /\ reader = "respond"
    /\ reader' = "idle"
    /\ report' = NoReport
    /\ held' = NoneHeld
    /\ UNCHANGED scraper_vars

----------------------------------------------------------------------------
(* Specifications *)

NoFaults == { {} }

Next ==
    \/ InitialFetch(SmallPages, BOOLEAN, NoFaults)
    \/ Tick(SmallPages, BOOLEAN, NoFaults, {FALSE}, MaxCycles)
    \/ SignalHandler
    \/ Shutdown(NoFaults)

Spec == Init /\ [][Next]_vars

\* the initial fetch and the first ticks, over pages that carry every
\* combination of fields in one collection at a time
NextReconcile ==
    \/ InitialFetch(RichPages, {FALSE}, NoFaults)
    \/ Tick(RichPages, {FALSE}, NoFaults, {FALSE}, MaxReconcileCycles)

SpecReconcile == Init /\ [][NextReconcile]_vars

----------------------------------------------------------------------------
(* The collector at the first cleanup that can find an expired entity *)

\* the first tick that runs the cleanup more than retention_hours after the
\* collector started: ticks are update_interval apart, the cleanup runs in
\* the ticks whose count is a multiple of cleanup_every
TrimTick ==
    (((retention_hours * 3600) \div update_interval + 1) \div cleanup_every + 1)
        * cleanup_every

\* the time at which that tick starts, and the cutoff its cleanup computes
TrimTime == (TrimTick - 1) * update_interval
TrimCutoff == TrimTime - retention_hours * 3600

\* entities last seen one tick before the cutoff, at it, one tick after it,
\* and in the previous tick
Seen(match_id, t) == Stamp(Raw(match_id, "in", "score" :> "0 - 0"), t)
StoredLive ==
    { <<>>,
      << Seen("A", TrimCutoff - update_interval) >>,
      << Seen("A", TrimCutoff) >>,
      << Seen("A", TrimCutoff + update_interval) >>,
      << Seen("A", TrimCutoff - update_interval), Seen("B", TrimTime) >>,
      << Seen("B", TrimCutoff + update_interval), Seen("A", TrimCutoff) >>,
      << Seen("A", TrimCutoff), Seen("B", TrimCutoff - update_interval) >> }
StoredUpcoming ==
    { <<>>, << Stamp(Raw("C", "in", "odd_w1" :> "1.85"), TrimTime) >> }

\* the timestamped snapshots of the last ticks with a count that is a
\* multiple of snapshot_every: both collections' snapshots of a tick are
\* written within the same second
SnapshotTick(i) == TrimTick - snapshot_every * ((i + 1) \div 2)
PriorSnapshots(n) ==
    { Timestamped(IF i % 2 = 1 THEN LiveBase ELSE UpcomingBase,
                  SnapshotTick(i) * update_interval, "json") : i \in 1..n }

\* the final files that run number r before this one left at its shutdown
PriorFinals(m) ==
    { Final(base, 0 - r * 3600, ext) :
        base \in {LiveBase, UpcomingBase}, ext \in {"csv", "json"}, r \in 1..m }

CanonicalFiles ==
    { Canonical(LiveBase, "json"), Canonical(LiveBase, "csv"),
      Canonical(UpcomingBase, "json"), Canonical(UpcomingBase, "csv"), ChangeLog }

\* a directory holding these files, each last written at the time in its
\* name, the canonical ones at time t
Directory(names, t) ==
    [n \in names |->
        [mtime |-> IF n.stamp = -1 THEN t ELSE n.stamp * 60,
         content |-> IF n.ext = "txt" THEN << [started_at |-> t] >>
                     ELSE << Stamp(Raw(IF n.base = LiveBase THEN "A" ELSE "C",
                                       "in", NoFields), t) >>]]

InitRetention ==
    /\ pc = "loop"
    /\ running = TRUE
    /\ update_count = TrimTick - 1
    /\ now = TrimTime
    /\ consecutive_errors = 0
    /\ driver = TRUE
    /\ driver_start_time = TrimTime - update_interval
    /\ last_successful_run = TrimTime
    /\ live_events \in StoredLive
    /\ upcoming_events \in StoredUpcoming
    /\ received_live = live_events
    /\ received_upcoming = upcoming_events
    /\ new_live_events = <<>>
    /\ new_upcoming_events = <<>>
    /\ new_live_matches = <<>>
    /\ new_upcoming_matches = <<>>
    /\ changed_live_matches = <<>>
    /\ changed_upcoming_matches = <<>>
    /\ unchanged_live = <<>>
    /\ unchanged_upcoming = <<>>
    /\ calls = <<>>
    /\ cycle = [NoCycle EXCEPT !.kind = "ok"]
    /\ streak = 0
    /\ streak_resets = 0
    /\ \E n \in 0..MaxSnapshots, m \in 0..MaxRuns :
          files = Directory(CanonicalFiles \cup PriorSnapshots(n) \cup PriorFinals(m),
                            update_interval)
    /\ writes = <<>>
    /\ trim = NoTrim
    /\ maintenance = {"restart_check"}
    /\ main = "run"
    /\ retry_count = 0
    /\ final_saves = 0
    /\ running_at_fetch = TRUE
    /\ reader = "idle"
    /\ report = NoReport
    /\ held = NoneHeld

RetentionPages ==
    { [live |-> Missing, upcoming |-> Missing],
      [live |-> Listing(<<Raw("A", "in", "score" :> "0 - 0")>>), upcoming |-> Missing],
      [live |-> Listing(<<Raw("A", "in", "score" :> "1 - 0")>>), upcoming |-> Missing],
      [live |-> Missing, upcoming |-> Listing(<<Raw("C", "in", "odd_w1" :> "1.85")>>)] }

NextRetention ==
    Tick(RetentionPages, {FALSE}, { {}, {"remove"} }, {FALSE},
         TrimTick - 1 + MaxRetentionTicks)

SpecRetention == InitRetention /\ [][NextRetention]_vars

----------------------------------------------------------------------------
(* The collector started on a data directory, with writes that can fail *)

\* DATA_DIR outlives the process: a collector can start on the files that
\* an earlier run wrote an hour before
InitPersist ==
    /\ Constructed
    /\ files \in {NoFiles, Directory(CanonicalFiles, 0 - 3600)}

PersistPages ==
    { [live |-> Missing, upcoming |-> Missing],
      [live |-> Listing(<<Raw("A", "in", "score" :> "0 - 0")>>),
       upcoming |-> Listing(<<Raw("C", "in", "odd_w1" :> "1.85")>>)],
      [live |-> Listing(<<Raw("A", "in", "score" :> "1 - 0")>>), upcoming |-> Missing],
      [live |-> Listing(<<Raw("B", "in", NoFields)>>),
       upcoming |-> Listing(<<Raw("C", "in", "odd_w1" :> "1.86")>>)] }

WriteFaults == { {}, {"json"}, {"csv"}, {"log"} }

NextPersist ==
    \/ InitialFetch(PersistPages, {FALSE}, WriteFaults)
    \/ Tick(PersistPages, {FALSE}, WriteFaults, {FALSE}, MaxPersistCycles)
    \/ SignalHandler
    \/ Shutdown(WriteFaults)

SpecPersist == InitPersist /\ [][NextPersist]_vars

\* SpecRestart: the ticks around the one at whose start the browser that
\* __init__ started, and that no failed fetch has replaced, is older than
\* restart_hours for the first time.
RestartTick == (restart_hours * 3600) \div update_interval + 2
RestartTime == (RestartTick - 1) * update_interval

InitRestart ==
    /\ pc = "loop"
    /\ running = TRUE
    /\ update_count = RestartTick - MaxRestartTicks
    /\ now = RestartTime - (MaxRestartTicks - 1) * update_interval
    /\ consecutive_errors = 0
    /\ driver = TRUE
    /\ driver_start_time = 0
    /\ last_successful_run = now
    /\ live_events = << Seen("A", now) >>
    /\ upcoming_events = <<>>
    /\ received_live = live_events
    /\ received_upcoming = upcoming_events
    /\ new_live_events = <<>>
    /\ new_upcoming_events = <<>>
    /\ new_live_matches = <<>>
    /\ new_upcoming_matches = <<>>
    /\ changed_live_matches = <<>>
    /\ changed_upcoming_matches = <<>>
    /\ unchanged_live = <<>>
    /\ unchanged_upcoming = <<>>
    /\ calls = <<>>
    /\ cycle = [NoCycle EXCEPT !.kind = "ok"]
    /\ streak = 0
    /\ streak_resets = 0
    /\ files = Directory({Canonical(LiveBase, "json"), Canonical(LiveBase, "csv"),
                          ChangeLog}, 0)
    /\ writes = <<>>
    /\ trim = NoTrim
    /\ maintenance = {"restart_check"}
    /\ main = "run"
    /\ retry_count = 0
    /\ final_saves = 0
    /\ running_at_fetch = TRUE
    /\ reader = "idle"
    /\ report = NoReport
    /\ held = NoneHeld

NextRestart == Tick(SmallPages, {FALSE}, NoFaults, {FALSE}, RestartTick)

SpecRestart == InitRestart /\ [][NextRestart]_vars

\* SpecStatus: requests for the status page served while the main thread
\* fetches and reconciles pages that make the stores grow.
StatusPages ==
    { [live |-> Missing, upcoming |-> Missing],
      [live |-> Listing(<<Raw("A", "in", "score" :> "0 - 0")>>), upcoming |-> Missing],
      [live |-> Listing(<<Raw("A", "in", "score" :> "1 - 0"),
                          Raw("B", "in", NoFields)>>),
       upcoming |-> Listing(<<Raw("C", "in", "odd_w1" :> "1.85")>>)],
      [live |-> Malformed, upcoming |-> Missing] }

NextStatus ==
    \/ InitialFetch(StatusPages, {FALSE}, NoFaults)
    \/ Tick(StatusPages, {FALSE}, NoFaults, {FALSE}, MaxStatusCycles)
    \/ BeginGet
    \/ ReadStamp
    \/ ReadLive
    \/ ReadUpcoming
    \/ Respond

SpecStatus == Init /\ [][NextStatus]_vars

\* SpecMaintenance: the ticks up to the first one whose count is a multiple
\* of ping_every, of gc_every and of cleanup_every, in a run that has had no
\* failure so far and that wrote a snapshot of both collections in every
\* tick whose count is a multiple of snapshot_every.
MaintenanceCounts == {ping_every, gc_every, cleanup_every}

EarlierSnapshots(count) ==
    { Timestamped(base, k * snapshot_every * update_interval, "json") :
        base \in {LiveBase, UpcomingBase}, k \in 1..(count \div snapshot_every) }

InitMaintenance ==
    /\ pc = "loop"
    /\ running = TRUE
    /\ \E m \in MaintenanceCounts : update_count = m - MaxMaintenanceTicks
    /\ now = update_count * update_interval
    /\ consecutive_errors = 0
    /\ driver = TRUE
    /\ driver_start_time = 0
    /\ last_successful_run = now
    /\ live_events = << Seen("A", now) >>
    /\ upcoming_events = << Stamp(Raw("C", "in", "odd_w1" :> "1.85"), now) >>
    /\ received_live = live_events
    /\ received_upcoming = upcoming_events
    /\ new_live_events = <<>>
    /\ new_upcoming_events = <<>>
    /\ new_live_matches = <<>>
    /\ new_upcoming_matches = <<>>
    /\ changed_live_matches = <<>>
    /\ changed_upcoming_matches = <<>>
    /\ unchanged_live = <<>>
    /\ unchanged_upcoming = <<>>
    /\ calls = <<>>
    /\ cycle = [NoCycle EXCEPT !.kind = "ok"]
    /\ streak = 0
    /\ streak_resets = 0
    /\ files = Directory(CanonicalFiles \cup EarlierSnapshots(update_count), 0)
    /\ writes = <<>>
    /\ trim = NoTrim
    /\ maintenance = {"restart_check"}
    /\ main = "run"
    /\ retry_count = 0
    /\ final_saves = 0
    /\ running_at_fetch = TRUE
    /\ reader = "idle"
    /\ report = NoReport
    /\ held = NoneHeld

NextMaintenance ==
    Tick(SmallPages, {FALSE}, NoFaults, {FALSE},
         IF update_count \in MaintenanceCounts THEN update_count
         ELSE update_count + 1)

SpecMaintenance == InitMaintenance /\ [][NextMaintenance]_vars

\* SpecScenario: snapshots of the live collection that list the one match A
\* with a score of 0 - 0 or of 1 - 0, or list nothing, in any order and
\* with failed fetches between them.
ScenarioPages ==
    { [live |-> Listing(<<Raw("A", "in", "score" :> "0 - 0")>>), upcoming |-> Missing],
      [live |-> Listing(<<Raw("A", "in", "score" :> "1 - 0")>>), upcoming |-> Missing],
      [live |-> Listing(<<>>), upcoming |-> Missing] }

NextScenario ==
    \/ InitialFetch(ScenarioPages, {FALSE}, NoFaults)
    \/ Tick(ScenarioPages, {FALSE}, NoFaults, {FALSE}, MaxScenarioCycles)

SpecScenario == Init /\ [][NextScenario]_vars

\* SpecReset: the ticks up to the one of the first scheduled restart, begun
\* either with a running driver and no failure or two failed fetches short
\* of the threshold (the driver torn down by the first of them and not
\* obtained since), with the signal handler and the status thread running
\* between the ticks.
InitReset ==
    /\ pc = "loop"
    /\ running = TRUE
    /\ update_count = RestartTick - MaxResetTicks
    /\ now = RestartTime - (MaxResetTicks - 1) * update_interval
    /\ \E e \in {0, max_consecutive_errors - 2} :
          /\ consecutive_errors = e
          /\ streak = e
          /\ driver = (e = 0)
          /\ last_successful_run = now - e * update_interval
          /\ cycle = IF e = 0 THEN [NoCycle EXCEPT !.kind = "ok"]
                     ELSE [NoCycle EXCEPT !.kind = "fetch_failed", !.driver_ok = FALSE,
                                          !.errors_before = e - 1,
                                          !.streak_before = e - 1, !.peak = e]
    /\ driver_start_time = 0
    /\ live_events = << Seen("A", last_successful_run) >>
    /\ upcoming_events = <<>>
    /\ received_live = live_events
    /\ received_upcoming = upcoming_events
    /\ new_live_events = <<>>
    /\ new_upcoming_events = <<>>
    /\ new_live_matches = <<>>
    /\ new_upcoming_matches = <<>>
    /\ changed_live_matches = <<>>
    /\ changed_upcoming_matches = <<>>
    /\ unchanged_live = <<>>
    /\ unchanged_upcoming = <<>>
    /\ calls = <<>>
    /\ streak_resets = 0
    /\ files = Directory({Canonical(LiveBase, "json"), Canonical(LiveBase, "csv"),
                          ChangeLog}, 0)
    /\ writes = <<>>
    /\ trim = NoTrim
    /\ maintenance = {"restart_check"}
    /\ main = "run"
    /\ retry_count = 0
    /\ final_saves = 0
    /\ running_at_fetch = TRUE
    /\ reader = "idle"
    /\ report = NoReport
    /\ held = NoneHeld

NextReset ==
    \/ Tick(SmallPages, {FALSE}, NoFaults, {FALSE}, RestartTick)
    \/ SignalHandler
    \/ Shutdown(NoFaults)
    \/ BeginGet
    \/ ReadStamp
    \/ ReadLive
    \/ ReadUpcoming
    \/ Respond

SpecReset == InitReset /\ [][NextReset]_vars

\* SpecMain: the whole process from the first statement of the loop of
\* __main__, with the constructor failing or not, a page a parser raises
\* on, failing writes, and a signal delivered between two steps or during
\* the sleep of an iteration.
InitMain ==
    /\ Unstarted
    /\ pc = "none"
    /\ main = "construct"
    /\ driver = FALSE
    /\ files = NoFiles

MainPages ==
    { [live |-> Listing(<<Raw("A", "in", "score" :> "0 - 0")>>), upcoming |-> Missing],
      [live |-> Listing(<<Raw("A", "in", "score" :> "1 - 0")>>),
       upcoming |-> Listing(<<Raw("C", "in", "odd_w1" :> "1.85")>>)],
      [live |-> Malformed, upcoming |-> Missing] }

MainFaults == { {}, {"json"}, {"log"} }

\* the steps of the main thread
MainThread ==
    \/ Construct(BOOLEAN)
    \/ InitialFetch(MainPages, {FALSE}, MainFaults)
    \/ Tick(MainPages, {FALSE}, MainFaults, BOOLEAN, MaxMainCycles)
    \/ Shutdown(MainFaults)
    \/ Return

NextMain ==
    \/ MainThread
    \/ SignalHandler

\* every statement of the main thread ends (the driver calls have timeouts,
\* the sleeps are finite), so the thread is not stopped for ever while it
\* has a step to take; when a signal arrives is up to the environment
SpecMain == InitMain /\ [][NextMain]_vars /\ WF_vars(MainThread)

----------------------------------------------------------------------------
(* Claims about the failure counter, checked under Spec *)

InLoopCycle == update_count >= 1 /\ cycle.kind # "none"
CycleFailed == cycle.kind \in {"fetch_failed", "raised"}

\* C1 (as claimed): whenever a failed cycle brings consecutive_errors to
\* max_consecutive_errors, the loop resets the driver once in that cycle and
\* consecutive_errors is 0 when the cycle ends.
C1_ResetOnceAndCounterZero ==
    (InLoopCycle /\ CycleFailed /\ cycle.peak >= max_consecutive_errors)
        => (cycle.reset /\ consecutive_errors = 0)

\* C2 (as claimed): over an unbroken streak of k failed cycles the loop has
\* issued floor(k / max_consecutive_errors) failure-triggered resets.
C2_ResetsPerStreak ==
    streak_resets = streak \div max_consecutive_errors

\* C3: a streak of fewer than max_consecutive_errors failed cycles sees no
\* failure-triggered reset, and a successful cycle that ends such a streak
\* leaves consecutive_errors at 0.
C3_ShortStreakNoReset ==
    /\ streak < max_consecutive_errors => streak_resets = 0
    /\ (cycle.kind = "ok" /\ cycle.streak_before < max_consecutive_errors)
          => (consecutive_errors = 0 /\ streak = 0 /\ streak_resets = 0)

C3_Witness ==
    /\ InLoopCycle
    /\ cycle.kind = "ok"
    /\ cycle.streak_before = max_consecutive_errors - 1
    /\ cycle.errors_before > 0
    /\ consecutive_errors = 0

\* C4 (as claimed): a fetch whose wait for the content timed out is a failed
\* cycle: nothing is parsed or reconciled, consecutive_errors is incremented
\* and last_successful_run is not advanced.
C4_TimeoutIsFailedCycle ==
    (InLoopCycle /\ cycle.driver_ok /\ cycle.wait_timed_out)
        => /\ cycle.kind = "fetch_failed"
           /\ consecutive_errors = cycle.errors_before + 1
           /\ last_successful_run # now

\* C4 (amended): a timed-out wait alone does not fail the fetch.  When the
\* driver is there and loading does not raise, a cycle whose wait timed out
\* still gets the page: last_successful_run is set to the time of the fetch,
\* the cycle is not counted as a failed fetch, and unless a parser raises it
\* is reconciled and ends with consecutive_errors = 0.
C4_TimeoutContinues ==
    (InLoopCycle /\ cycle.driver_ok /\ ~cycle.load_raises /\ cycle.wait_timed_out)
        => /\ cycle.kind # "fetch_failed"
           /\ last_successful_run = now
           /\ consecutive_errors = (IF cycle.kind = "raised" THEN 1 ELSE 0)
           /\ ("malformed" \notin {cycle.live, cycle.upcoming} => cycle.kind = "ok")

C4_Witness ==
    /\ InLoopCycle
    /\ cycle.wait_timed_out
    /\ cycle.kind = "ok"
    /\ cycle.errors_before > 0
    /\ last_successful_run = now
    /\ Len(new_live_events) = 1

\* C5 (as claimed): a cycle whose page was fetched but whose parsing raised
\* adds 1 to the count left by the preceding failed cycles, and resets the
\* driver when that reaches max_consecutive_errors.
C5_ParseErrorAccumulates ==
    (InLoopCycle /\ cycle.kind = "raised")
        => IF cycle.errors_before + 1 >= max_consecutive_errors
           THEN cycle.reset
           ELSE consecutive_errors = cycle.errors_before + 1

\* C6 (as claimed): a cycle whose page lacks the container of a collection
\* increments consecutive_errors instead of resetting it to 0.
C6_MissingContainerCounted ==
    (InLoopCycle /\ cycle.kind # "fetch_failed"
       /\ "missing" \in {cycle.live, cycle.upcoming})
        => (consecutive_errors = cycle.errors_before + 1 \/ cycle.reset)

\* C6 (amended): a missing container is not counted.  The parser returns the
\* empty snapshot for that collection without raising, the other collection
\* is parsed all the same, and unless the other parser raises the cycle is
\* a successful one: it is reconciled and ends with consecutive_errors = 0.
C6_MissingContainerNotCounted ==
    /\ (InLoopCycle /\ cycle.driver_ok /\ ~cycle.load_raises
          /\ cycle.live = "missing" /\ cycle.upcoming # "malformed")
         => (cycle.kind = "ok" /\ consecutive_errors = 0
             /\ new_live_events = <<>> /\ new_live_matches = <<>>
             /\ (cycle.upcoming = "missing" \/ Len(new_upcoming_events) > 0))
    /\ (InLoopCycle /\ cycle.driver_ok /\ ~cycle.load_raises
          /\ cycle.upcoming = "missing" /\ cycle.live # "malformed")
         => (cycle.kind = "ok" /\ consecutive_errors = 0
             /\ new_upcoming_events = <<>> /\ new_upcoming_matches = <<>>)

C6_Witness ==
    /\ InLoopCycle
    /\ cycle.kind = "ok"
    /\ cycle.live = "missing"
    /\ cycle.errors_before > 0
    /\ consecutive_errors = 0
    /\ Len(new_upcoming_events) = 1

----------------------------------------------------------------------------
(* Claims about reconciliation, checked under SpecReconcile *)

Reconciled == InLoopCycle /\ cycle.kind = "ok"

UniqueIds(events) ==
    \A i, j \in 1..Len(events) :
        i # j => events[i]["match_id"] # events[j]["match_id"]

\* C7 (as claimed): each store holds at most one entity per id, after the
\* initial fetch and after every reconciliation.
C7_OneEntityPerId ==
    UniqueIds(live_events) /\ UniqueIds(upcoming_events)

Occurrences(seq, x) == Cardinality({i \in 1..Len(seq) : seq[i] = x})

\* the ids of the three groups of a reconciliation, in one list
GroupIds(events, created, changed, unchanged) ==
    [i \in 1..Len(created) |-> created[i]["match_id"]]
    \o [i \in 1..Len(changed) |-> events[changed[i]]["match_id"]]
    \o unchanged

\* C8 (as claimed): every id of the input snapshot is listed in exactly one
\* of created, updated and unchanged, and exactly once.
C8_EachIdInOneGroup ==
    Reconciled =>
        /\ \A k \in 1..Len(new_live_events) :
              Occurrences(GroupIds(live_events, new_live_matches,
                                   changed_live_matches, unchanged_live),
                          new_live_events[k]["match_id"]) = 1
        /\ \A k \in 1..Len(new_upcoming_events) :
              Occurrences(GroupIds(upcoming_events, new_upcoming_matches,
                                   changed_upcoming_matches, unchanged_upcoming),
                          new_upcoming_events[k]["match_id"]) = 1

\* the fields of a record that are neither its id, nor an identity field,
\* nor its timestamp (the last_seen of the entity)
MutableKeys == {"score", "scores", "status", "start_time"} \cup OddKeys
\* the fields whose change update_match_odds reports
TrackedKeys == {"score", "status"} \cup OddKeys

DiffersIn(keys, existing_match, new_match) ==
    \E k \in keys \cap DOMAIN new_match :
        k \notin DOMAIN existing_match \/ existing_match[k] # new_match[k]

\* C9 (as claimed): a record whose id is in the store is classified updated
\* if and only if one of its mutable fields differs from the stored value or
\* is absent from the stored entity.
C9_UpdatedIffAnyFieldDiffers ==
    \A i \in 1..Len(calls) :
        calls[i].odds_changed
            <=> DiffersIn(MutableKeys, calls[i].existing_match, calls[i].new_match)

\* C9 (amended): a record whose id is in the store is classified updated if
\* and only if its score, its status or one of its odds fields differs from
\* the stored value or is absent from the stored entity; a difference in
\* another mutable field (start time, scores list) is written to the entity
\* without classifying it as updated.
C9_UpdatedIffTrackedFieldDiffers ==
    \A i \in 1..Len(calls) :
        /\ calls[i].odds_changed
              <=> DiffersIn(TrackedKeys, calls[i].existing_match, calls[i].new_match)
        /\ \A k \in MutableKeys \cap DOMAIN calls[i].new_match :
              /\ k \in DOMAIN calls[i].merged
              /\ calls[i].merged[k] = calls[i].new_match[k]

C9_Witness ==
    \E i \in 1..Len(calls) :
        /\ ~calls[i].odds_changed
        /\ DiffersIn({"start_time", "scores"},
                     calls[i].existing_match, calls[i].new_match)
        /\ calls[i].merged # calls[i].existing_match

\* C10: a record that lacks a field leaves the stored value of that field as
\* it was, and after any sequence of reconciliations every entity holds, for
\* every field a record for it ever carried, the value of the latest such
\* record.
C10_PartialRecordKeepsFields ==
    /\ \A i \in 1..Len(calls) :
          \A k \in DOMAIN calls[i].existing_match :
              /\ k \in DOMAIN calls[i].merged
              /\ k \notin DOMAIN calls[i].new_match
                    => calls[i].merged[k] = calls[i].existing_match[k]
    /\ live_events = received_live
    /\ upcoming_events = received_upcoming

C10_Witness ==
    /\ update_count >= 2
    /\ \E i \in 1..Len(calls) :
          \E k \in MutableKeys :
              /\ k \in DOMAIN calls[i].existing_match
              /\ k \notin DOMAIN calls[i].new_match
              /\ calls[i].merged[k] = calls[i].existing_match[k]
              /\ calls[i].existing_match["timestamp"] > 0

\* C11 (as claimed): reconciling a snapshot and then the identical snapshot
\* again (the same records, carrying the same timestamps) yields a second
\* ChangeSet with no created and no updated entity and leaves the store as
\* the first reconciliation left it, also when two records share an id.
C11_ReconcileIdempotent ==
    Reconciled =>
        LET again_live == Reconcile(live_events, received_live, new_live_events)
            again_upcoming ==
                Reconcile(upcoming_events, received_upcoming, new_upcoming_events)
        IN  /\ again_live.created = <<>>
            /\ again_live.changed = <<>>
            /\ again_live.events = live_events
            /\ again_upcoming.created = <<>>
            /\ again_upcoming.changed = <<>>
            /\ again_upcoming.events = upcoming_events

\* the records of a snapshot that share their id with a later record of it
Superseded(new_events) ==
    {k \in 1..Len(new_events) :
        \E l \in (k+1)..Len(new_events) :
            new_events[l]["match_id"] = new_events[k]["match_id"]}

\* every entity stored under the id of record k of the snapshot carries the
\* value of the last record with that id, for each of its fields
CarriesLatest(events, new_events) ==
    \A l \in (1..Len(new_events)) \ Superseded(new_events) :
        (\E k \in Superseded(new_events) :
            new_events[k]["match_id"] = new_events[l]["match_id"])
        => \A i \in 1..Len(events) :
              events[i]["match_id"] = new_events[l]["match_id"]
                  => \A key \in DOMAIN new_events[l] :
                        Has(events[i], key) /\ events[i][key] = new_events[l][key]

\* C12 (as claimed): when two records of one snapshot share an id, the
\* entity stored under that id after the reconciliation carries the later
\* record's value for every field the later record has, whether the id was
\* in the store before or is new in this snapshot.
C12_LaterDuplicateWins ==
    Reconciled => /\ CarriesLatest(live_events, new_live_events)
                  /\ CarriesLatest(upcoming_events, new_upcoming_events)

Ids(events) == {events[i]["match_id"] : i \in 1..Len(events)}

\* a step leaves alone the entities of `events` whose id the snapshot of
\* the step does not list, and lists them in no group
AbsentKept(events, events_after, snapshot, created, changed, unchanged) ==
    /\ Len(events_after) >= Len(events)
    /\ \A i \in 1..Len(events) :
          events[i]["match_id"] \notin Ids(snapshot)
          => /\ events_after[i] = events[i]
             /\ events[i]["match_id"] \notin Ids(created)
             /\ \A k \in 1..Len(changed) : changed[k] # i
             /\ \A k \in 1..Len(unchanged) : unchanged[k] # events[i]["match_id"]

\* C13: reconciliation never removes an entity.  In every step in which the
\* retention trim does not run, an entity whose id the snapshot lacks stays
\* in the store with all its fields and its timestamp as they were, and is
\* listed in no group of the ChangeSet.
C13_AbsentEntityKept ==
    [][ ~trim'.ran =>
          /\ AbsentKept(live_events, live_events', new_live_events',
                        new_live_matches', changed_live_matches', unchanged_live')
          /\ AbsentKept(upcoming_events, upcoming_events', new_upcoming_events',
                        new_upcoming_matches', changed_upcoming_matches',
                        unchanged_upcoming') ]_vars

C13_Witness ==
    /\ Reconciled
    /\ Len(new_live_events) > 0
    /\ \E i \in 1..Len(live_events) :
          /\ live_events[i]["match_id"] \notin Ids(new_live_events)
          /\ live_events[i]["timestamp"] < now
          /\ Has(live_events[i], "score")

\* sport, league and the participants make up the id (lines 349-353), so
\* two records with one id agree on them; country is the identity field
\* that can differ between them
IdentityKeys == {"country"}

\* C14 (as claimed): the identity fields of a stored entity keep the values
\* set at creation: merging a later record with the same id overwrites none
\* of them, even when the record carries a different value.
C14_IdentityFieldsKept ==
    \A i \in 1..Len(calls) :
        \A k \in IdentityKeys \cap DOMAIN calls[i].existing_match :
            calls[i].merged[k] = calls[i].existing_match[k]

----------------------------------------------------------------------------
(* Claims about retention, checked under SpecRetention *)

\* the entities of `events` whose timestamp is at or after the cutoff
AtOrAfter(events, cutoff) ==
    KeepFrom(events, [i \in 1..Len(events) |-> events[i]["timestamp"] >= cutoff], 1)

\* C15 (as claimed): the retention trim removes exactly the entities whose
\* timestamp is strictly older than the cutoff; an entity whose timestamp
\* equals the cutoff is retained.
C15_TrimKeepsAtCutoff ==
    trim.ran => /\ trim.live_after = AtOrAfter(trim.live, trim.cutoff)
                /\ trim.upcoming_after = AtOrAfter(trim.upcoming, trim.cutoff)

Min(a, b) == IF a < b THEN a ELSE b

\* of the files of one pattern, the file cleanup left min(n, keep_files),
\* none of them older than a file it deleted
KeptNewest(before, after, ext) ==
    LET had == Matching(before, ext)
        has == Matching(after, ext)
    IN  /\ has \subseteq had
        /\ Cardinality(has) = Min(Cardinality(had), keep_files)
        /\ \A k \in has : \A gone \in had \ has :
              before[k].mtime >= before[gone].mtime

\* C16: after a file rotation in which no deletion failed, of the n files
\* matching a pattern exactly min(n, 5) remain, and they are the most
\* recently modified ones; no other file is deleted or altered.
C16_RotationKeepsNewest ==
    (trim.ran /\ ~trim.remove_fails) =>
        /\ KeptNewest(trim.files, trim.files_after, "json")
        /\ KeptNewest(trim.files, trim.files_after, "csv")
        /\ \A n \in DOMAIN trim.files_after :
              n \in DOMAIN trim.files /\ trim.files_after[n] = trim.files[n]
        /\ \A n \in DOMAIN trim.files \ DOMAIN trim.files_after :
              n \in Matching(trim.files, "json") \cup Matching(trim.files, "csv")

C16_Witness ==
    /\ trim.ran
    /\ ~trim.remove_fails
    /\ Cardinality(Matching(trim.files, "json")) = 8
    /\ Cardinality(Matching(trim.files_after, "json")) = keep_files
    /\ Cardinality(Matching(trim.files, "csv")) = 4
    /\ Cardinality(Matching(trim.files_after, "csv")) = 4

SnapshotWritten(base) ==
    \E k \in 1..Len(writes) : writes[k].name = Timestamped(base, now, "json")

SnapshotOf(base, events) ==
    /\ \E k \in 1..Len(writes) :
          /\ writes[k].name = Timestamped(base, now, "json")
          /\ writes[k].mode = "w"
          /\ writes[k].data = events
    /\ Cardinality({k \in 1..Len(writes) :
                       writes[k].name = Timestamped(base, now, "json")}) = 1

----------------------------------------------------------------------------
(* Claims about the persisted files, checked under SpecPersist *)

\* the positions in `writes` of the writes to a file
WritesTo(name) == {k \in 1..Len(writes) : writes[k].name = name}

\* the one write of the cycle to the full-state document of a collection:
\* the whole store, replacing what the file held
FullStateWrite(base, events) ==
    /\ Cardinality(WritesTo(Canonical(base, "json"))) = 1
    /\ \A k \in WritesTo(Canonical(base, "json")) :
          /\ writes[k].mode = "w"
          /\ writes[k].data = events
          /\ writes[k].ok => files[Canonical(base, "json")].content = events

\* C17: in every cycle of the main loop and for each collection, the
\* canonical full-state document is written, with the whole current store,
\* if and only if the cycle's created or updated group for that collection
\* is not empty; a cycle in which nothing changed does not write it.
C17_FullStateWrittenIffChanged ==
    (InLoopCycle /\ pc = "loop") =>
        /\ IF new_live_matches # <<>> \/ changed_live_matches # <<>>
           THEN FullStateWrite(LiveBase, live_events)
           ELSE WritesTo(Canonical(LiveBase, "json")) = {}
        /\ IF new_upcoming_matches # <<>> \/ changed_upcoming_matches # <<>>
           THEN FullStateWrite(UpcomingBase, upcoming_events)
           ELSE WritesTo(Canonical(UpcomingBase, "json")) = {}

C17_Witness ==
    /\ InLoopCycle
    /\ pc = "loop"
    /\ cycle.kind = "ok"
    /\ changed_live_matches # <<>>
    /\ FullStateWrite(LiveBase, live_events)
    /\ files[Canonical(LiveBase, "json")].content = live_events
    /\ upcoming_events # <<>>
    /\ new_upcoming_matches = <<>>
    /\ changed_upcoming_matches = <<>>
    /\ WritesTo(Canonical(UpcomingBase, "json")) = {}
    /\ Canonical(UpcomingBase, "json") \in DOMAIN files
    /\ files[Canonical(UpcomingBase, "json")].mtime < now

IsPrefix(s, t) == Len(s) <= Len(t) /\ SubSeq(t, 1, Len(s)) = s

\* a step leaves the rows of the append log of a collection where they are
\* and adds to them, if anything, the records created in the step
OnlyAppends(base, created) ==
    LET log == Canonical(base, "csv") IN
    log \in DOMAIN files =>
        /\ log \in DOMAIN files'
        /\ IsPrefix(files[log].content, files'[log].content)
        /\ files'[log].content \in {files[log].content, files[log].content \o created}

\* C18 (as claimed): the append log of a collection only grows, by the
\* records created in a cycle: no later operation, the initial fetch of a
\* collector that starts on an existing append log included, rewrites or
\* drops rows that are on disk, and no updated or unchanged record is added.
C18_AppendLogOnlyGrows ==
    [][ /\ OnlyAppends(LiveBase, new_live_matches')
        /\ OnlyAppends(UpcomingBase, new_upcoming_matches') ]_vars

\* the cycle got its page and both parsers returned
Parsed ==
    /\ cycle.driver_ok
    /\ ~cycle.load_raises
    /\ "malformed" \notin {cycle.live, cycle.upcoming}

\* C20 (as claimed): a failure to write a persisted output in a cycle (the
\* append log, the full-state document or the change log) is not a failed
\* cycle: the cycle ends with consecutive_errors and the stores as a cycle
\* whose writes succeeded leaves them.
C20_WriteFailureNotCounted ==
    (InLoopCycle /\ pc = "loop" /\ Parsed
       /\ \E k \in 1..Len(writes) : ~writes[k].ok)
        => /\ cycle.kind = "ok"
           /\ consecutive_errors = 0
           /\ live_events = received_live
           /\ upcoming_events = received_upcoming

----------------------------------------------------------------------------
(* Claims about the loop's control, checked under SpecPersist *)

\* the loop has ended although nothing cleared self.running
EndedWhileRunning == pc = "done" /\ running

\* C21 (as claimed): no failed write ends the poll loop: after a write has
\* failed at any point of the run, the creation of the change log after the
\* initial fetch included, the loop goes on until the running flag is cleared.
C21_WriteFailureKeepsLoop ==
    (Parsed /\ \E k \in 1..Len(writes) : ~writes[k].ok) => ~EndedWhileRunning

----------------------------------------------------------------------------
(* Claims about the change log, checked under SpecReconcile *)

\* the cycle wrote a change-log line for the entity that names the field and
\* the two values
LoggedChange(match_id, k, old, new) ==
    \E w \in WritesTo(ChangeLog) :
        \E j \in 1..Len(writes[w].data) :
            LET line == writes[w].data[j]
            IN  /\ "changes" \in DOMAIN line
                /\ line.match_id = match_id
                /\ k \in DOMAIN line.changes
                /\ line.changes[k] = <<old, new>>

\* C22 (as claimed): for every mutable field of a stored entity whose value a
\* reconciliation changes from old to new, the change log receives a line
\* naming the entity, the field, the value held before and the new value.
C22_ChangeLogHasOldAndNew ==
    \A i \in 1..Len(calls) :
        \A k \in MutableKeys \cap DOMAIN calls[i].new_match
                             \cap DOMAIN calls[i].existing_match :
            calls[i].existing_match[k] # calls[i].new_match[k]
               => LoggedChange(calls[i].merged["match_id"], k,
                               calls[i].existing_match[k], calls[i].new_match[k])

----------------------------------------------------------------------------
(* Claims about shutdown and restart, checked under SpecMain *)

\* C23 (as claimed): a cleared self.running is observed at the top of the
\* next iteration or during its sleep: once the flag is false, no new fetch
\* is started (and so no reconciliation runs) before shutdown, that is, the
\* fetch of every iteration of the loop began with the flag still true.
C23_NoFetchAfterStop == InLoopCycle => running_at_fetch

\* the writes of the final file of a collection in the last save
FinalWrites(base, ext) ==
    {k \in 1..Len(writes) : writes[k].name = Final(base, now, ext)}

\* the final csv and json of a collection were each written once, with the
\* whole store
FinalPersisted(base, events) ==
    \A ext \in {"csv", "json"} :
        /\ Cardinality(FinalWrites(base, ext)) = 1
        /\ \A k \in FinalWrites(base, ext) :
              writes[k].mode = "w" /\ writes[k].data = events

\* C24 (as claimed): when the run has ended, because the flag was cleared or
\* a fatal error left the loop, the final full-state persist of both
\* collections has been performed, exactly once.
C24_FinalPersistOfBoth ==
    pc = "done" => /\ final_saves = 1
                   /\ FinalPersisted(LiveBase, live_events)
                   /\ FinalPersisted(UpcomingBase, upcoming_events)

FinalPersistedIfAny(base, events) ==
    IF events = <<>>
    THEN \A ext \in {"csv", "json"} : FinalWrites(base, ext) = {}
    ELSE FinalPersisted(base, events)

\* C24 (amended): if the flag is cleared or a fatal error leaves the loop,
\* the run eventually ends; the final save is performed exactly once, before
\* __main__ leaves its loop, and writes the final files of each collection
\* whose store is not empty (none for an empty store); once a scraper has
\* been constructed, no other is constructed or run.
C24_FinalPersistOnce ==
    /\ (main = "run" /\ ~running) ~> (pc = "done")
    /\ [](final_saves <= 1)
    /\ [](pc = "done" => /\ final_saves = 1
                         /\ FinalPersistedIfAny(LiveBase, live_events)
                         /\ FinalPersistedIfAny(UpcomingBase, upcoming_events))
    /\ []((main = "exit" /\ pc # "none") => pc = "done")
    /\ [][pc # "none" => /\ retry_count' = retry_count
                         /\ (pc' = "start" => pc = "start")
                         /\ main' # "construct"]_vars

C24_Witness ==
    /\ main = "exit"
    /\ pc = "done"
    /\ ~running
    /\ live_events # <<>>
    /\ upcoming_events = <<>>
    /\ FinalPersisted(LiveBase, live_events)

\* C25 (as claimed): an error raised while a cycle is processed, the initial
\* fetch-and-parse included, is caught at the cycle boundary and counted as a
\* failure, and the loop goes on: no error ends the loop while the running
\* flag is true.
C25_ErrorCaughtAtCycleBoundary ==
    (cycle.kind = "raised" /\ running)
        => /\ pc = "loop"
           /\ consecutive_errors >= 1 \/ cycle.reset

\* C26 (as claimed): after an error has ended the poll loop while the
\* running flag was true, __main__ does not leave its loop before the
\* retries are used up: it constructs and runs another scraper.
C26_FatalErrorRestarts ==
    (main = "exit" /\ EndedWhileRunning) => retry_count = max_retries

\* constructions attempted so far: the failed ones and the one that returned
Attempts == retry_count + (IF pc = "none" THEN 0 ELSE 1)

\* C27: the loop of __main__ terminates: at most max_retries constructions are
\* attempted; while no construction has succeeded each failure has been
\* followed by the delay of retry_delay seconds, and after max_retries
\* failures the loop is left; a scraper that was constructed and whose run
\* returned ends the loop, and nothing is attempted after the loop is left;
\* every pass that constructs ends in a scraper or in the exit.
C27_RestartLoopTerminates ==
    /\ [](Attempts <= max_retries)
    /\ [](pc = "none" =>
            /\ now = retry_count * retry_delay
            /\ main = (IF retry_count < max_retries THEN "construct" ELSE "exit"))
    /\ []((pc # "none" /\ main = "exit") => pc = "done")
    /\ []((pc = "done" /\ main = "run") => ENABLED Return)
    /\ [][main = "exit" => (main' = "exit" /\ retry_count' = retry_count
                             /\ pc' = pc)]_vars
    /\ (main = "construct") ~> (main # "construct")

C27_Witness ==
    /\ main = "exit"
    /\ pc = "none"
    /\ retry_count = max_retries
    /\ now = max_retries * retry_delay

----------------------------------------------------------------------------
(* Claims about the scheduled restart of the driver, checked under SpecRestart *)

\* the browser's age at the start of the tick is above the ceiling
AgeAboveCeiling == now - driver_start_time > restart_hours * 3600

\* C28: in every tick that begins with the driver's age above restart_hours,
\* whatever consecutive_errors is, the age clock is restarted in that tick; a
\* page fetched in that tick is fetched by a driver created in that tick;
\* and the counter moves as the cycle's outcome alone makes it move from
\* the value it had (the scheduled restart itself leaves it unchanged, and
\* is not counted as a failure-triggered reset).
C28_ScheduledRestart ==
    [][ (update_count' = update_count + 1 /\ AgeAboveCeiling) =>
          /\ driver_start_time' \in {now, now'}
          /\ cycle'.kind # "fetch_failed" => (driver' /\ driver_start_time' = now')
          /\ cycle'.errors_before = consecutive_errors
          /\ cycle'.kind = "fetch_failed" =>
                /\ cycle'.peak = consecutive_errors + 1
                /\ consecutive_errors' = (IF cycle'.reset THEN 0
                                          ELSE consecutive_errors + 1)
                /\ cycle'.reset <=> consecutive_errors + 1 >= max_consecutive_errors
          /\ cycle'.kind = "ok" => consecutive_errors' = 0 ]_vars

\* the tick after a successful one began with the old driver alive and ended
\* with a page fetched by a driver created in it
C28_Witness ==
    /\ update_count = RestartTick
    /\ cycle.kind = "ok"
    /\ cycle.errors_before = 0
    /\ driver
    /\ driver_start_time = now

----------------------------------------------------------------------------
(* Claims about the status page, checked under SpecStatus and Spec *)

\* C29: however the steps of do_GET interleave with the main thread, do_GET
\* writes nothing of the scraper's state, and each value of the page it is
\* about to write (last update, live count, upcoming count) is one that the
\* scraper held at some instant while the request was served.
C29_StatusReadsHeldValues ==
    /\ [](reader = "respond" => \A k \in DOMAIN report : report[k] \in held[k])
    /\ [][reader' # reader => UNCHANGED scraper_vars]_vars

\* a page whose three values were held at three different instants
C29_Witness ==
    /\ reader = "respond"
    /\ report.last_update # -1
    /\ report.live_count < Len(live_events)
    /\ report.last_update < last_successful_run
    /\ report.upcoming_count = Len(upcoming_events)
    /\ report.upcoming_count > 0

\* a step of the loop that fetches: the initial fetch or an iteration
FetchStep == update_count' = update_count + 1 \/ (pc = "start" /\ pc' # "start")

\* C30 (as claimed): last_successful_run advances only in a cycle that got
\* its page and parsed it without raising: a cycle that fails at fetch or at
\* parse leaves it as it was.
C30_LastSuccessOnlyOnSuccess ==
    [][ (FetchStep /\ cycle'.kind \in {"fetch_failed", "raised"})
            => last_successful_run' = last_successful_run ]_vars

----------------------------------------------------------------------------
(* Claims about failed fetches and maintenance, checked under SpecMaintenance *)

SeenAfterCutoff(events, t) ==
    KeepFrom(events,
             [i \in 1..Len(events) |->
                 events[i]["timestamp"] > t - retention_hours * 3600], 1)

C35_MaintenanceByCount ==
    /\ [][ now' # now => update_count' = update_count + 1 ]_vars
    /\ []( /\ "restart_check" \in maintenance
           /\ "ping" \in maintenance <=> update_count % 10 = 0
           /\ "gc" \in maintenance <=> update_count % 20 = 0
           /\ "cleanup" \in maintenance <=> update_count % 50 = 0
           /\ trim.ran <=> update_count % 50 = 0 )

\* an iteration with a count of 20 whose fetch failed: pinged and collected
C35_Witness ==
    /\ cycle.kind = "fetch_failed"
    /\ update_count = 20
    /\ maintenance = {"restart_check", "ping", "gc"}
    /\ ~trim.ran

----------------------------------------------------------------------------
(* The four-step scenario on one entity, checked under SpecScenario *)

\* the list holds the match A alone, with this score
OnlyA(events, score) ==
    /\ Len(events) = 1
    /\ events[1]["match_id"] = "A"
    /\ events[1]["score"] = score

\* an iteration that fetched and parsed its page and handled the snapshot
LoopCycleOk == pc = "loop" /\ update_count' = update_count + 1 /\ cycle'.kind = "ok"

\* C32: a first snapshot with A (score 0 - 0) puts A in the store, by the
\* assignment and the write to the append log of the initial fetch, or as
\* a created record of an iteration; from the store holding A (0 - 0), a
\* snapshot with A (1 - 0) flags A as changed, creates nothing, and the
\* stored score becomes 1 - 0; a snapshot with A and the stored score leaves
\* A neither created nor changed; an empty snapshot gives an empty change
\* set and leaves the store as it was.
C32_FourStepScenario ==
    /\ []((pc = "loop" /\ update_count = 0 /\ cycle.kind = "ok"
             /\ cycle.live = "listing" /\ live_events # <<>>)
            => /\ \E score \in {"0 - 0", "1 - 0"} : OnlyA(live_events, score)
               /\ live_events[1]["timestamp"] = now
               /\ \E k \in WritesTo(Canonical(LiveBase, "csv")) :
                     writes[k].mode = "w" /\ writes[k].data = live_events)
    /\ [][ (LoopCycleOk /\ live_events = <<>> /\ OnlyA(new_live_events', "0 - 0"))
            => /\ new_live_matches' = new_live_events'
               /\ changed_live_matches' = <<>>
               /\ unchanged_live' = <<>>
               /\ live_events' = new_live_events' ]_vars
    /\ [][ (LoopCycleOk /\ OnlyA(live_events, "0 - 0")
              /\ OnlyA(new_live_events', "1 - 0"))
            => /\ changed_live_matches' = <<1>>
               /\ new_live_matches' = <<>>
               /\ unchanged_live' = <<>>
               /\ OnlyA(live_events', "1 - 0") ]_vars
    /\ [][ (LoopCycleOk /\ \E score \in {"0 - 0", "1 - 0"} :
                              OnlyA(live_events, score)
                              /\ OnlyA(new_live_events', score))
            => /\ changed_live_matches' = <<>>
               /\ new_live_matches' = <<>>
               /\ unchanged_live' = <<"A">>
               /\ live_events'[1]["score"] = live_events[1]["score"]
               /\ Len(live_events') = 1 ]_vars
    /\ [][ (LoopCycleOk /\ new_live_events' = <<>> /\ new_upcoming_events' = <<>>)
            => /\ changed_live_matches' = <<>>
               /\ new_live_matches' = <<>>
               /\ unchanged_live' = <<>>
               /\ changed_upcoming_matches' = <<>>
               /\ new_upcoming_matches' = <<>>
               /\ live_events' = live_events ]_vars

\* the state after the four steps: A was written to the append log with
\* 0 - 0 by the initial fetch, the one change logged is that of the first
\* iteration, A was last seen in the second and the third listed nothing
C32_Witness ==
    /\ update_count = 3
    /\ cycle.kind = "ok"
    /\ cycle.live = "listing"
    /\ new_live_events = <<>>
    /\ OnlyA(live_events, "1 - 0")
    /\ live_events[1]["timestamp"] = 2 * update_interval
    /\ OnlyA(files[Canonical(LiveBase, "csv")].content, "0 - 0")
    /\ files[ChangeLog].content = << [started_at |-> 0], [update_at |-> update_interval] >>

----------------------------------------------------------------------------
(* Last-seen refresh and the retention window, checked under SpecRetention *)

\* every merge of an incoming record into a stored entity left the entity
\* with the timestamp of the incoming record
LastSeenRefreshed ==
    \A i \in 1..Len(calls) :
        calls[i].merged["timestamp"] = calls[i].new_match["timestamp"]

\* every entity of `before` last seen at or after the cutoff is in `after`
WindowKept(before, after, cutoff) ==
    \A i \in 1..Len(before) :
        before[i]["timestamp"] >= cutoff
            => \E j \in 1..Len(after) : after[j] = before[i]

\* C33 (as claimed): every reconciliation that finds an entity sets its
\* timestamp to that of the incoming record, whether or not another field
\* differs, and an entity last seen within the retention window, the cutoff
\* included, is never evicted by the retention trim.
C33_SeenInWindowKept ==
    /\ LastSeenRefreshed
    /\ trim.ran => /\ WindowKept(trim.live, trim.live_after, trim.cutoff)
                   /\ WindowKept(trim.upcoming, trim.upcoming_after, trim.cutoff)

----------------------------------------------------------------------------
(* Tear-down and lazy re-creation of the driver, checked under SpecReset *)

\* C34: after a reset, by the threshold or by the schedule, the driver is
\* re-created at the start of the next fetch: an iteration that begins with
\* no driver or with one above the age ceiling either fails to obtain a
\* driver and fetches nothing, or works with a driver created at its fetch;
\* every cycle that got a page ends with its driver in place, and a reset
\* at the threshold leaves none; and no step other than an iteration's own
\* (the signal handler, the status thread, the shutdown) changes the driver
\* or its age clock.
C34_LazyRecreation ==
    /\ [][ (update_count' = update_count + 1 /\ (~driver \/ AgeAboveCeiling))
            => IF cycle'.driver_ok
               THEN /\ driver_start_time' = now'
                    /\ cycle'.kind # "fetch_failed" => driver'
               ELSE /\ cycle'.kind = "fetch_failed"
                    /\ ~driver' ]_vars
    /\ [](cycle.kind \in {"ok", "raised"} => driver)
    /\ [](cycle.reset => ~driver)
    /\ [][ ~FetchStep => /\ driver' = driver
                         /\ driver_start_time' = driver_start_time ]_vars

\* the cycle after a reset at the threshold got its page with a driver
\* created at its fetch
C34_Witness ==
    /\ cycle.kind = "ok"
    /\ cycle.streak_before >= max_consecutive_errors
    /\ cycle.driver_ok
    /\ driver
    /\ driver_start_time = now

----------------------------------------------------------------------------
(* The driver after a failed fetch, checked under Spec *)

\* C36: whenever a fetch returned no content, in the initial fetch or in an
\* iteration and whatever the value of consecutive_errors, there is no
\* driver when the cycle ends; so the iteration that follows a failed fetch
\* begins by trying to create one: it either fails to and fetches nothing,
\* or works with a driver created at its fetch.
C36_FailedFetchLeavesNoDriver ==
    /\ [](cycle.kind = "fetch_failed" => ~driver)
    /\ [][ (update_count' = update_count + 1 /\ cycle.kind = "fetch_failed")
            => IF cycle'.driver_ok
               THEN driver_start_time' = now'
               ELSE cycle'.kind = "fetch_failed" ]_vars

\* a first failure, by an error while loading with a browser that was
\* there, followed by nothing yet: the browser is gone below the threshold
C36_Witness ==
    /\ update_count >= 1
    /\ cycle.kind = "fetch_failed"
    /\ cycle.load_raises
    /\ cycle.driver_ok
    /\ cycle.errors_before = 0
    /\ consecutive_errors = 1
    /\ ~driver

----------------------------------------------------------------------------
(* The files the rotation leaves alone, checked under SpecRetention *)

\* a name without a stamp: a canonical document, an append log, the change log
Unstamped(n) == n.stamp = -1

\* C37: the file cleanup deletes no canonical document, append log or change
\* log: every such file of the directory it found is in the directory it
\* left, as it was, and every file it deleted carries the stamp of a
\* snapshot or of a final file; no step of the loop removes such a file, so
\* the canonical files written by earlier cycles are there in every state.
C37_RotationSparesCanonical ==
    /\ [](trim.ran =>
            /\ \A n \in DOMAIN trim.files :
                  Unstamped(n) => /\ n \in DOMAIN trim.files_after
                                  /\ trim.files_after[n] = trim.files[n]
            /\ \A n \in DOMAIN trim.files \ DOMAIN trim.files_after : ~Unstamped(n))
    /\ [][ \A n \in DOMAIN files : Unstamped(n) => n \in DOMAIN files' ]_vars
    /\ [](CanonicalFiles \subseteq DOMAIN files)

\* a cleanup that deleted snapshots and final files of both extensions from
\* a directory in which the canonical files were older than what it kept
C37_Witness ==
    /\ trim.ran
    /\ \E n \in DOMAIN trim.files \ DOMAIN trim.files_after : n.final /\ n.ext = "csv"
    /\ \E n \in DOMAIN trim.files \ DOMAIN trim.files_after : n.ext = "json"
    /\ \A c \in CanonicalFiles :
          /\ c \in DOMAIN trim.files_after
          /\ \E n \in DOMAIN trim.files_after :
                ~Unstamped(n) /\ trim.files[n].mtime > trim.files[c].mtime

====
